---- MODULE Spec2Model ----
(***************************************************************************)
(* Verification model of the gratefulday client:                           *)
(*   - PrimalCacheService   (profile search over one multiplexed socket)   *)
(*   - AutocompleteTextarea (debounced mention search in the editor)       *)
(*   - zap detector         (selectRandomZapper over three relays)         *)
(*   - useGratitudeGift     (recent recipients, recipient selection, gift  *)
(*                           payment) with GratitudeGiftModal              *)
(*   - TestNpubGenerator    (testGenerator)                                *)
(* Each component has its own specification over the shared variables; a   *)
(* component's specification leaves the other components' variables alone. *)
(***************************************************************************)
EXTENDS Integers, Sequences, FiniteSets, Bags, TLC

(***************************************************************************)
(* Bounds of the model                                                     *)
(***************************************************************************)
\* number of searchProfiles requests that get a request id
MaxRequests == 2
\* number of kind-0 profile events the cache service delivers in a run
MaxProfileEvents == 2
\* number of input events (keystrokes, pastes) in the editor
MaxKeystrokes == 4
\* number of zap receipts the relays deliver during one scan
MaxDelivered == 2
\* number of saveRecentRecipient calls the two tabs start
MaxSaves == 3
\* number of recent posts a relay query returns
MaxEvents == 2
\* number of verifyAndPublishPayment calls the modal makes
MaxVerify == 2
\* number of sendGratitudeGift calls
MaxGifts == 1
\* number of handleUserSelect calls
MaxSelects == 2
\* number of input events of the user in the div
MaxEdits == 3
\* createEvent calls of one dialog
MaxPublishes == 3
\* pieces of a text the editor is mounted with
MaxPieces == 3
\* the last year a session runs in
LastYear == 2104
\* local midnights that pass while one session stays open
MaxMidnights == 2

(***************************************************************************)
(* Program constants                                                       *)
(***************************************************************************)
maxReconnectAttempts == 3
NumEndpoints == 2
ReconnectBaseDelay == 1000
SearchDebounceMs == 500
LookupDebounceMs == 300
MinIdentifierLength == 59
MinQueryLength == 2
NumRelays == 3
MinZapSats == 10
RecentCap == 5
NumTabs == 2

VARIABLES
  \* ---- PrimalCacheService ----
  wsRef,              \* this.ws: "null" or "sock"
  readyState,         \* readyState of the socket created last
  pendingRequests,    \* Map requestId -> [profiles]
  timers,             \* request ids whose timeout timer is armed
  reconnectAttempts,
  currentEndpoint,
  reconnectTimers,    \* delays (ms) of the scheduled reconnect timers
  nextId,             \* the next request id generateRequestId hands out
  outcome,            \* per request id: how its promise stands
  settleCalls,        \* per request id: resolve/reject invocations so far
  arrived,            \* per request id: kind-0 profiles delivered while it was pending
  sent,               \* request ids of the frames written to the socket
  lastCall,           \* how the last searchProfiles call returned
  \* ---- AutocompleteTextarea ----
  textBeforeCursor,   \* plain text left of the caret
  inputCount,         \* number of input events handled so far
  debounceTimeout,    \* debounceTimeout.current: id of the timer set last, 0 = null
  edTimers,           \* armed debounce timers
  inflight,           \* awaited searchProfiles / fetchProfile calls
  suggestions,
  showDropdown,
  searching,
  searchCalls,        \* searchProfiles calls made: query and input count at the call
  suggestionsFrom,    \* <<input event whose request set suggestions last, inputCount then>>
  \* ---- AutocompleteTextarea: the contentEditable div and the keyboard ----
  nodes,              \* child nodes of the div: text nodes and mention pills
  caret,              \* the collapsed selection: container and offset
  gratitudeText,      \* gratitudeText of the dialog: the value prop of the editor
  isInternalUpdate,   \* isInternalUpdate.current
  mentionedProfiles,  \* keys of the Map useMentionProfiles returns
  mentionFetches,     \* mentions whose fetchProfile of useMentionProfiles is awaited
  highlightedIndex,
  selectOutcome,      \* how handleUserSelect ended last: "none", "inserted", "threw"
  \* ---- Index: the calendar of the current year ----
  clock,              \* the local calendar date now
  renderedAt,         \* today of the last render of Index, NoDate before the first
  memoYear,           \* the dependency the allDays memo was computed for, 0 = none
  allDays,            \* what the allDays memo holds
  midnights,          \* local midnights passed in this session
  \* ---- CalendarView and DayDetailDialog: one day, its reflection ----
  selectedDay,        \* the DayInfo the dialog shows, NoDay while it is closed
  currentUser,        \* pubkey of the logged-in user, "null" if none
  showLoginDialog,    \* the login dialog is up
  dialogToast,        \* title of the last toast of the dialog, "none" if none
  publishing,         \* createEvent in flight (isPending), NoPublish if none
  publishingNote,     \* publishNote in flight (isPublishingNote), NoEvent if none
  publishCount,       \* createEvent calls so far
  reflectionStore,    \* the events the relay has accepted, in order
  saves,              \* what the user saved: date and text of each accepted save
  \* ---- zap detector: one selectRandomZapper call ----
  relayState,         \* per relay: "connecting", "open" (subscribed) or "failed"
  subOpen,            \* per relay: the subscription still delivers events
  relayTimer,         \* per relay: the 15 s timeout is armed
  zapReceipts,        \* per relay: the zapReceipts array of its queryRelay
  resolvedWith,       \* per relay: what the array held when the promise resolved
  queryResult,        \* per relay: how the queryRelay promise resolved
  zapPc,              \* "awaiting" Promise.all, or "done"
  allEvents,          \* the merged list
  uniqueEvents,       \* the list after deduplication
  amountPassed,       \* the unique events that got past the amount filter
  processedZaps,      \* the survivors, before the shuffle
  zapResult,          \* what selectRandomZapper returned
  \* ---- recent recipients in localStorage, written from two tabs ----
  storage,            \* the list stored under gratitudeGift_recentRecipients
  tabPc,              \* per tab: "idle", or "read" between getItem and setItem
  tabRecent,          \* per tab: what getRecentRecipients returned
  tabKey,             \* per tab: the pubkey argument of saveRecentRecipient
  savesStarted,       \* saveRecentRecipient calls started
  savesDone,          \* saveRecentRecipient calls whose setItem returned
  lastSaved,          \* the pubkey of the save that completed last
  \* ---- the relays ----
  relayEvents,        \* authors of the recent kind-1 posts the relays hold
  \* ---- useGratitudeGift: one sendGratitudeGift call at a time ----
  giftPc,             \* "idle", or the await sendGratitudeGift is suspended at
  giftCalls,          \* sendGratitudeGift calls made
  isSending,
  gInput,             \* user and amount of the call made last
  recentRecipients,   \* what getRecentRecipients returned to selectRandomRecipient
  gEvents,            \* authors of the recent posts the first query returned
  queryFailed,        \* a relay query of selectRandomRecipient rejected
  recipient,          \* the recipient selectRandomRecipient returned, "null" if none
  usedNetwork,        \* the call made a relay query, a fetch or a publish
  toast,              \* title of the toast the call showed, "none" if none
  attempts,           \* the payment channels the call went through, in order
  giftResult,         \* what the call returned
  bgZapQuery,         \* the fire-and-forget zap request query is outstanding
  publishLog,         \* why publishZapRequest was called: by whom, invoice paid or not
  \* ---- GratitudeGiftModal ----
  paymentState,       \* "form", "invoice" or "success"
  invoiceInfo,        \* invoiceInfo is set
  verifyCalls,        \* verifyAndPublishPayment calls in flight
  verifyStarted,      \* verifyAndPublishPayment calls made
  \* ---- TestNpubGenerator ----
  tgResult            \* what testGenerator computed last

searchVars == <<wsRef, readyState, pendingRequests, timers, reconnectAttempts,
                currentEndpoint, reconnectTimers, nextId, outcome, settleCalls,
                arrived, sent, lastCall>>

editorVars == <<textBeforeCursor, inputCount, debounceTimeout, edTimers, inflight,
                suggestions, showDropdown, searching, searchCalls, suggestionsFrom>>

domVars == <<nodes, caret, gratitudeText, isInternalUpdate, mentionedProfiles, mentionFetches,
             highlightedIndex, selectOutcome>>

calVars == <<clock, renderedAt, memoYear, allDays, midnights>>

dialogVars == <<selectedDay, currentUser, showLoginDialog, dialogToast, publishing,
                publishingNote, publishCount, reflectionStore, saves>>

zapVars == <<relayState, subOpen, relayTimer, zapReceipts, resolvedWith, queryResult, zapPc,
             allEvents, uniqueEvents, amountPassed, processedZaps, zapResult>>

recentVars == <<storage, tabPc, tabRecent, tabKey, savesStarted, savesDone, lastSaved>>

\* the call of sendGratitudeGift in progress
callVars == <<giftPc, giftCalls, isSending, gInput, recentRecipients, gEvents, queryFailed, recipient,
              usedNetwork, toast, attempts, giftResult, bgZapQuery>>

modalVars == <<paymentState, invoiceInfo, verifyCalls, verifyStarted>>

giftVars == <<callVars, publishLog, modalVars>>

vars == <<searchVars, editorVars, domVars, calVars, dialogVars, zapVars, recentVars, relayEvents, giftVars, tgResult>>

\* what a step of one component leaves alone
nonEditorDomVars == <<searchVars, calVars, dialogVars, zapVars, recentVars, relayEvents, giftVars, tgResult>>
nonCalVars == <<searchVars, editorVars, domVars, dialogVars, zapVars, recentVars, relayEvents, giftVars, tgResult>>
nonSearchVars == <<editorVars, domVars, calVars, dialogVars, zapVars, recentVars, relayEvents, giftVars, tgResult>>
nonEditorVars == <<searchVars, domVars, calVars, dialogVars, zapVars, recentVars, relayEvents, giftVars, tgResult>>
nonZapVars == <<searchVars, editorVars, domVars, calVars, dialogVars, recentVars, relayEvents, giftVars, tgResult>>
nonRecentVars == <<searchVars, editorVars, domVars, calVars, dialogVars, zapVars, relayEvents, giftVars, tgResult>>
\* the gift flow writes the stored list and nothing else of the tabs
nonGiftVars == <<searchVars, editorVars, domVars, calVars, dialogVars, zapVars, tabPc, tabRecent, tabKey,
                 savesStarted, savesDone, lastSaved, relayEvents, tgResult>>
nonTestVars == <<searchVars, editorVars, domVars, calVars, dialogVars, zapVars, recentVars, relayEvents, giftVars>>

(***************************************************************************)
(* PrimalCacheService                                                      *)
(***************************************************************************)
RequestIds == 1..MaxRequests
Pubkeys == {"pkA", "pkB"}
\* queries of length 1 and 2: the length test of searchProfiles
Queries == {<<"a">>, <<"a", "b">>}

NoOutcome == [state |-> "pending", profiles |-> <<>>, error |-> "none"]
Resolved(profiles) == [state |-> "resolved", profiles |-> profiles, error |-> "none"]
Rejected(error) == [state |-> "rejected", profiles |-> <<>>, error |-> error]

\* frames the socket can deliver to onmessage: profile events, events of
\* another kind, events whose content does not parse, EOSE and other frames
Messages ==
  [type : {"EVENT"}, id : RequestIds, kind : {0}, pubkey : Pubkeys, contentOk : {TRUE}]
  \cup [type : {"EVENT"}, id : RequestIds, kind : {1}, pubkey : {"pkA"}, contentOk : {TRUE}]
  \cup [type : {"EVENT"}, id : RequestIds, kind : {0}, pubkey : {"pkA"}, contentOk : {FALSE}]
  \cup [type : {"EOSE"}, id : RequestIds, kind : {0}, pubkey : {"pkA"}, contentOk : {TRUE}]
  \cup [type : {"NOTICE", "MALFORMED"}, id : {0}, kind : {0}, pubkey : {"pkA"}, contentOk : {TRUE}]

\* a promise settles on the first resolve/reject only
Settle(out, id, val) ==
  IF out[id].state = "pending" THEN [out EXCEPT ![id] = val] ELSE out

RECURSIVE SettleAll(_, _, _)
SettleAll(out, ids, val) ==
  IF ids = {} THEN out
  ELSE LET id == CHOOSE i \in ids : TRUE
       IN SettleAll(Settle(out, id, val), ids \ {id}, val)

CountCalls(calls, ids) ==
  [i \in DOMAIN calls |-> IF i \in ids THEN calls[i] + 1 ELSE calls[i]]

MapDelete(map, id) == [i \in (DOMAIN map) \ {id} |-> map[i]]
MapSet(map, id, val) == [i \in (DOMAIN map) \cup {id} |-> IF i = id THEN val ELSE map[i]]

\* variant: the profile is pushed to every pending request
PushProfile_AllPending(pending, requestId, pubkey) ==
  [i \in DOMAIN pending |-> [pending[i] EXCEPT !.profiles = Append(@, pubkey)]]

\* handleMessage, EVENT branch: pending.profiles.push(...)
PushProfile(pending, requestId, pubkey) ==
  [pending EXCEPT ![requestId].profiles = Append(@, pubkey)]

\* variant: the entry stays in the map after EOSE
EoseDelete_Keep(pending, requestId) == pending

\* handleMessage, EOSE branch: this.pendingRequests.delete(requestId)
EoseDelete(pending, requestId) == MapDelete(pending, requestId)

\* variant: handleDisconnect without clearTimeout
TimersAfterDisconnect_Keep(tm, pending) == tm

\* handleDisconnect: the timers that stay armed after the forEach
TimersAfterDisconnect(tm, pending) == tm \ DOMAIN pending

\* variant: the attempt test written with <=
MayReconnect_AtMost(n) == n <= maxReconnectAttempts

\* handleDisconnect: this.reconnectAttempts < this.maxReconnectAttempts
MayReconnect(n) == n < maxReconnectAttempts

\* handleDisconnect: reject every pending request, clear the map, then
\* schedule a reconnect while attempts remain (rt: the reconnect timers
\* outstanding when it runs)
HandleDisconnect(rt) ==
  /\ outcome' = SettleAll(outcome, DOMAIN pendingRequests, Rejected("WebSocket disconnected"))
  /\ settleCalls' = CountCalls(settleCalls, DOMAIN pendingRequests)
  /\ timers' = TimersAfterDisconnect(timers, pendingRequests)
  /\ pendingRequests' = <<>>
  /\ IF MayReconnect(reconnectAttempts)
     THEN /\ reconnectAttempts' = reconnectAttempts + 1
          /\ currentEndpoint' = (currentEndpoint + 1) % NumEndpoints
          /\ reconnectTimers' = Append(rt, ReconnectBaseDelay * (reconnectAttempts + 1))
     ELSE /\ reconnectTimers' = rt
          /\ UNCHANGED <<reconnectAttempts, currentEndpoint>>

\* ws.onopen
WsOpen ==
  /\ readyState = "CONNECTING"
  /\ readyState' = "OPEN"
  /\ reconnectAttempts' = 0
  /\ UNCHANGED <<wsRef, pendingRequests, timers, currentEndpoint, reconnectTimers,
                 nextId, outcome, settleCalls, arrived, sent, lastCall>>
  /\ UNCHANGED nonSearchVars

\* ws.onclose: the socket closed (server, network, or after close())
WsClose ==
  /\ readyState \in {"CONNECTING", "OPEN", "CLOSING"}
  /\ readyState' = "CLOSED"
  /\ HandleDisconnect(reconnectTimers)
  /\ UNCHANGED <<wsRef, nextId, arrived, sent, lastCall>>
  /\ UNCHANGED nonSearchVars

\* a reconnect timer fires: connect(); new WebSocket() either gives a
\* connecting socket or throws, and the catch runs handleDisconnect
ReconnectTimerFires ==
  /\ reconnectTimers # <<>>
  /\ \E i \in 1..Len(reconnectTimers), throws \in BOOLEAN :
       LET rest == [k \in 1..(Len(reconnectTimers) - 1) |->
                      IF k < i THEN reconnectTimers[k] ELSE reconnectTimers[k + 1]]
       IN IF throws
          THEN /\ HandleDisconnect(rest)
               /\ UNCHANGED <<wsRef, readyState>>
          ELSE /\ wsRef' = "sock"
               /\ readyState' = "CONNECTING"
               /\ reconnectTimers' = rest
               /\ UNCHANGED <<pendingRequests, timers, reconnectAttempts, currentEndpoint,
                              outcome, settleCalls>>
  /\ UNCHANGED <<nextId, arrived, sent, lastCall>>
  /\ UNCHANGED nonSearchVars

\* handleMessage(data)
HandleMessage(m) ==
  IF m.type = "EVENT"
  THEN IF m.id \in DOMAIN pendingRequests /\ m.kind = 0 /\ m.contentOk
       THEN /\ pendingRequests' = PushProfile(pendingRequests, m.id, m.pubkey)
            /\ UNCHANGED <<timers, outcome, settleCalls>>
       ELSE UNCHANGED <<pendingRequests, timers, outcome, settleCalls>>
  ELSE IF m.type = "EOSE"
  THEN IF m.id \in DOMAIN pendingRequests
       THEN /\ timers' = timers \ {m.id}
            /\ outcome' = Settle(outcome, m.id, Resolved(pendingRequests[m.id].profiles))
            /\ settleCalls' = CountCalls(settleCalls, {m.id})
            /\ pendingRequests' = EoseDelete(pendingRequests, m.id)
       ELSE UNCHANGED <<pendingRequests, timers, outcome, settleCalls>>
  ELSE UNCHANGED <<pendingRequests, timers, outcome, settleCalls>>

\* a kind-0 event whose content parses, for a request whose promise is
\* still pending: what the environment has delivered for that request
IsProfileEvent(m) ==
  m.type = "EVENT" /\ m.kind = 0 /\ m.contentOk /\ outcome[m.id].state = "pending"

RECURSIVE TotalLen(_, _)
TotalLen(f, ids) ==
  IF ids = {} THEN 0
  ELSE LET id == CHOOSE i \in ids : TRUE
       IN Len(f[id]) + TotalLen(f, ids \ {id})

\* ws.onmessage: a frame arrives on the open socket. Frames carry the ids of
\* requests that were issued; the profile log is capped by MaxProfileEvents.
Deliver ==
  /\ readyState = "OPEN"
  /\ \E m \in Messages :
       /\ m.id < nextId
       /\ IsProfileEvent(m) => TotalLen(arrived, RequestIds) < MaxProfileEvents
       /\ arrived' = IF IsProfileEvent(m)
                     THEN [arrived EXCEPT ![m.id] = Append(@, m.pubkey)]
                     ELSE arrived
       /\ HandleMessage(m)
  /\ UNCHANGED <<wsRef, readyState, reconnectAttempts, currentEndpoint, reconnectTimers,
                 nextId, sent, lastCall>>
  /\ UNCHANGED nonSearchVars

\* variant: a request is accepted while the socket is connecting
NotConnected_AcceptConnecting(ws, state) == ws = "null" \/ state \notin {"OPEN", "CONNECTING"}

\* searchProfiles: !this.ws || this.ws.readyState !== WebSocket.OPEN
NotConnected(ws, state) == ws = "null" \/ state # "OPEN"

\* searchProfiles(query): the synchronous part up to the returned promise
SearchProfiles ==
  /\ UNCHANGED nonSearchVars
  /\ \E query \in Queries, sendOk \in BOOLEAN :
       IF Len(query) < 2
       THEN /\ lastCall' = "empty"
            /\ UNCHANGED <<wsRef, readyState, pendingRequests, timers, reconnectAttempts,
                           currentEndpoint, reconnectTimers, nextId, outcome, settleCalls,
                           arrived, sent>>
       ELSE IF NotConnected(wsRef, readyState)
       THEN /\ lastCall' = "not connected"
            /\ UNCHANGED <<wsRef, readyState, pendingRequests, timers, reconnectAttempts,
                           currentEndpoint, reconnectTimers, nextId, outcome, settleCalls,
                           arrived, sent>>
       ELSE /\ nextId <= MaxRequests
            /\ nextId' = nextId + 1
            /\ IF sendOk
               THEN /\ pendingRequests' = MapSet(pendingRequests, nextId, [profiles |-> <<>>])
                    /\ timers' = timers \cup {nextId}
                    /\ sent' = Append(sent, nextId)
                    /\ lastCall' = "sent"
                    /\ UNCHANGED <<outcome, settleCalls>>
               ELSE /\ outcome' = Settle(outcome, nextId, Rejected("send failed"))
                    /\ settleCalls' = CountCalls(settleCalls, {nextId})
                    /\ lastCall' = "send failed"
                    /\ UNCHANGED <<pendingRequests, timers, sent>>
            /\ UNCHANGED <<wsRef, readyState, reconnectAttempts, currentEndpoint,
                           reconnectTimers, arrived>>

\* the setTimeout callback of searchProfiles for request id
RequestTimeout(id) ==
  /\ id \in timers
  /\ timers' = timers \ {id}
  /\ pendingRequests' = MapDelete(pendingRequests, id)
  /\ outcome' = Settle(outcome, id, Rejected("Search request timed out"))
  /\ settleCalls' = CountCalls(settleCalls, {id})
  /\ UNCHANGED <<wsRef, readyState, reconnectAttempts, currentEndpoint, reconnectTimers,
                 nextId, arrived, sent, lastCall>>
  /\ UNCHANGED nonSearchVars

\* disconnect(): ws.close(); ws = null
Disconnect ==
  /\ wsRef = "sock"
  /\ wsRef' = "null"
  /\ readyState' = IF readyState \in {"CONNECTING", "OPEN"} THEN "CLOSING" ELSE readyState
  /\ UNCHANGED <<pendingRequests, timers, reconnectAttempts, currentEndpoint,
                 reconnectTimers, nextId, outcome, settleCalls, arrived, sent, lastCall>>
  /\ UNCHANGED nonSearchVars

(***************************************************************************)
(* AutocompleteTextarea: handleInput and its debounced callbacks           *)
(***************************************************************************)
\* characters matched by \w among those the model types or pastes
WordChars == {"a", "b", "c", "n", "o", "s", "t", "r", "p", "u", "1", "q"}
TypedChars == {"@", "a", "b", "c", " "}

RECURSIVE Rep(_, _)
Rep(c, n) == IF n = 0 THEN <<>> ELSE <<c>> \o Rep(c, n - 1)

NostrPrefix == <<"n", "o", "s", "t", "r", ":">>
NpubPrefix == <<"n", "p", "u", "b", "1">>
NprofilePrefix == <<"n", "p", "r", "o", "f", "i", "l", "e", "1">>

\* the bech32 npub of a key: "npub1" and 58 data characters
NpubDataLength == 58
NpubA == NpubPrefix \o Rep("q", NpubDataLength)
NpubB == NpubPrefix \o Rep("p", NpubDataLength)

\* what the user can paste into the editor
Pastes == {NostrPrefix \o NpubA, <<"@">> \o NpubA}

StartsWith(s, pre) == Len(s) >= Len(pre) /\ SubSeq(s, 1, Len(pre)) = pre

\* the positions of s holding a character that \w does not match
NonWordPositions(s) == {k \in 1..Len(s) : s[k] \notin WordChars}

\* the last such position, 0 if there is none: the [\w]+$ of both patterns
\* can only be the run of word characters that follows it
LastNonWord(s) ==
  LET P == NonWordPositions(s)
  IN  IF P = {} THEN 0 ELSE CHOOSE k \in P : \A j \in P : j <= k

\* textBeforeCursor.match(/@([\w]+)$/): the captured group, <<>> if no match
\* (i is LastNonWord(text))
AtMatch(text, i) ==
  IF i > 0 /\ i < Len(text) /\ text[i] = "@"
  THEN SubSeq(text, i + 1, Len(text)) ELSE <<>>

\* textBeforeCursor.match(/nostr:(npub1[\w]+|nprofile1[\w]+)$/): the group
\* (i is LastNonWord(text))
NostrMatch(text, i) ==
  LET rest == SubSeq(text, i + 1, Len(text))
  IN IF /\ i >= Len(NostrPrefix)
        /\ text[i] = ":"
        /\ SubSeq(text, i - Len(NostrPrefix) + 1, i) = NostrPrefix
        /\ \/ (StartsWith(rest, NpubPrefix) /\ Len(rest) > Len(NpubPrefix))
           \/ (StartsWith(rest, NprofilePrefix) /\ Len(rest) > Len(NprofilePrefix))
     THEN rest ELSE <<>>

\* parseIdentifier: the decoded key, "null" when nip19.decode rejects the value
ParseIdentifier(value) ==
  IF value = NpubA THEN "pkA"
  ELSE IF value = NpubB THEN "pkB"
  ELSE "null"

\* variant: handleInput without clearTimeout
ClearDebounce_None(tms, current) == tms

\* handleInput: clearTimeout(debounceTimeout.current)
ClearDebounce(tms, current) == {t \in tms : t.tid # current}

\* what handleInput schedules for the text before the caret:
\* a profile lookup, a username search, nothing, or the clearing else-branch
Classify(text) ==
  LET i == LastNonWord(text)
      nostrMatch == NostrMatch(text, i)
      atMatch == AtMatch(text, i)
  IN IF nostrMatch # <<>>
     THEN IF Len(nostrMatch) >= MinIdentifierLength /\ ParseIdentifier(nostrMatch) # "null"
          THEN [kind |-> "lookup", arg |-> <<ParseIdentifier(nostrMatch)>>]
          ELSE [kind |-> "none", arg |-> <<>>]
     ELSE IF atMatch # <<>>
     THEN IF /\ (StartsWith(atMatch, NpubPrefix) \/ StartsWith(atMatch, NprofilePrefix))
             /\ Len(atMatch) >= MinIdentifierLength
          THEN IF ParseIdentifier(atMatch) # "null"
               THEN [kind |-> "lookup", arg |-> <<ParseIdentifier(atMatch)>>]
               ELSE [kind |-> "none", arg |-> <<>>]
          ELSE IF /\ Len(atMatch) >= MinQueryLength
                  /\ ~StartsWith(atMatch, NpubPrefix)
                  /\ ~StartsWith(atMatch, NprofilePrefix)
          THEN [kind |-> "search", arg |-> atMatch]
          ELSE [kind |-> "none", arg |-> <<>>]
     ELSE [kind |-> "clear", arg |-> <<>>]

\* the texts one edit can leave before the caret
Edits(text) ==
  {Append(text, c) : c \in TypedChars}
  \cup {text \o paste : paste \in Pastes}
  \cup (IF text = <<>> THEN {} ELSE {SubSeq(text, 1, Len(text) - 1)})

\* handleInput from the pattern match on: what it leaves in the dropdown state
\* and the debounce slot when newText is the text before the caret
InputEffect(newText) ==
  LET what == Classify(newText)
      cleared == ClearDebounce(edTimers, debounceTimeout)
      tid == inputCount + 1
  IN IF what.kind \in {"lookup", "search"}
     THEN [searching |-> TRUE, showDropdown |-> TRUE, debounceTimeout |-> tid,
           edTimers |-> cleared \cup
             {[tid |-> tid, kind |-> what.kind, arg |-> what.arg,
               delay |-> IF what.kind = "search" THEN SearchDebounceMs
                         ELSE LookupDebounceMs]},
           suggestions |-> suggestions, suggestionsFrom |-> suggestionsFrom]
     ELSE IF what.kind = "clear"
     THEN [searching |-> searching, showDropdown |-> FALSE,
           debounceTimeout |-> debounceTimeout, edTimers |-> cleared,
           suggestions |-> <<>>, suggestionsFrom |-> <<0, 0>>]
     ELSE [searching |-> searching, showDropdown |-> showDropdown,
           debounceTimeout |-> debounceTimeout, edTimers |-> cleared,
           suggestions |-> suggestions, suggestionsFrom |-> suggestionsFrom]

\* handleInput after an edit that leaves newText before the caret
HandleInput ==
  /\ inputCount < MaxKeystrokes
  /\ \E newText \in Edits(textBeforeCursor) :
       LET eff == InputEffect(newText)
       IN /\ textBeforeCursor' = newText
          /\ inputCount' = inputCount + 1
          /\ searching' = eff.searching
          /\ showDropdown' = eff.showDropdown
          /\ debounceTimeout' = eff.debounceTimeout
          /\ edTimers' = eff.edTimers
          /\ suggestions' = eff.suggestions
          /\ suggestionsFrom' = eff.suggestionsFrom
  /\ UNCHANGED <<inflight, searchCalls>>
  /\ UNCHANGED nonEditorVars

\* a debounce timer fires: the callback runs up to its await
DebounceFires ==
  \E t \in edTimers :
    /\ edTimers' = edTimers \ {t}
    /\ inflight' = inflight \cup {[key |-> t.tid, kind |-> t.kind, arg |-> t.arg]}
    /\ searchCalls' = IF t.kind = "search"
                      THEN Append(searchCalls, [query |-> t.arg, at |-> inputCount])
                      ELSE searchCalls
    /\ UNCHANGED <<textBeforeCursor, inputCount, debounceTimeout, suggestions,
                   showDropdown, searching, suggestionsFrom>>
    /\ UNCHANGED nonEditorVars

\* what searchProfiles of the hook can resolve with (it catches every error
\* of the cache service and resolves with [])
SearchResults == {<<>>, <<"pkA">>, <<"pkA", "pkB">>}

\* the awaited searchProfiles(query) resolves: setSuggestions, setSearching
SearchResponse ==
  \E r \in inflight, profiles \in SearchResults :
    /\ r.kind = "search"
    /\ inflight' = inflight \ {r}
    /\ suggestions' = profiles
    /\ suggestionsFrom' = <<r.key, inputCount>>
    /\ searching' = FALSE
    /\ UNCHANGED <<textBeforeCursor, inputCount, debounceTimeout, edTimers,
                   showDropdown, searchCalls>>
    /\ UNCHANGED nonEditorVars

\* the awaited fetchProfile(pubkey) settles: a profile, null, or the relay
\* query rejects and the callback ends at the await
LookupResponse ==
  \E r \in inflight, result \in {"profile", "null", "error"} :
    /\ r.kind = "lookup"
    /\ inflight' = inflight \ {r}
    /\ IF result = "error"
       THEN UNCHANGED <<suggestions, suggestionsFrom, searching>>
       ELSE /\ suggestions' = IF result = "profile" THEN r.arg ELSE <<>>
            /\ suggestionsFrom' = <<r.key, inputCount>>
            /\ searching' = FALSE
    /\ UNCHANGED <<textBeforeCursor, inputCount, debounceTimeout, edTimers,
                   showDropdown, searchCalls>>
    /\ UNCHANGED nonEditorVars

EditorInit ==
  /\ textBeforeCursor = <<>>
  /\ inputCount = 0
  /\ debounceTimeout = 0
  /\ edTimers = {}
  /\ inflight = {}
  /\ suggestions = <<>>
  /\ showDropdown = FALSE
  /\ searching = FALSE
  /\ searchCalls = <<>>
  /\ suggestionsFrom = <<0, 0>>
  /\ nodes = <<>>
  /\ caret = [node |-> 0, offset |-> 0]
  /\ gratitudeText = <<>>
  /\ isInternalUpdate = FALSE
  /\ mentionedProfiles = {}
  /\ mentionFetches = {}
  /\ highlightedIndex = -1
  /\ selectOutcome = [calls |-> 0, inserted |-> 0, profile |-> "none", result |-> "none"]

EditorNext ==
  \/ HandleInput
  \/ DebounceFires
  \/ SearchResponse
  \/ LookupResponse

(***************************************************************************)
(* AutocompleteTextarea: the contentEditable div, its plain text, and      *)
(* renderTextWithMentions                                                  *)
(***************************************************************************)
\* a child of the div: a text node, or a pill whose text is its data-mention
TextNode(t) == [pill |-> FALSE, text |-> t]
Pill(mention) == [pill |-> TRUE, text |-> mention]

\* nip19.npubEncode of the keys the searches return
NpubEncode(pubkey) == IF pubkey = "pkA" THEN NpubA ELSE NpubB

\* handleUserSelect: `nostr:${nip19.npubEncode(profile.pubkey)}`
MentionOf(pubkey) == NostrPrefix \o NpubEncode(pubkey)

\* htmlToPlainText: the space added after a pill when the next node is a text
\* node that holds text and does not start with whitespace
PillSeparator(ns, k) ==
  IF k < Len(ns) /\ ~ns[k + 1].pill /\ ns[k + 1].text # <<>> /\ ns[k + 1].text[1] # " "
  THEN <<" ">> ELSE <<>>

\* htmlToPlainText, from child k on
RECURSIVE PlainFrom(_, _)
PlainFrom(ns, k) ==
  IF k > Len(ns) THEN <<>>
  ELSE (IF ns[k].pill THEN ns[k].text \o PillSeparator(ns, k) ELSE ns[k].text)
         \o PlainFrom(ns, k + 1)

HtmlToPlainText(ns) == PlainFrom(ns, 1)

\* getTextBeforeCursor: the plain text of the clone of everything from the
\* start of the div to the caret (c.node = 0: the caret is in the div itself,
\* between two children; a pill the range ends in is cloned with its
\* data-mention)
GetTextBeforeCursor(ns, c) ==
  HtmlToPlainText(
    IF c.node = 0 THEN SubSeq(ns, 1, c.offset)
    ELSE IF ns[c.node].pill THEN SubSeq(ns, 1, c.node)
    ELSE SubSeq(ns, 1, c.node - 1) \o <<TextNode(SubSeq(ns[c.node].text, 1, c.offset))>>)

\* mentionRegex: /nostr:(npub1[a-z0-9]{58,59}|nprofile1[a-z0-9]{58,})\b/g
\* (the texts of the model hold no nprofile1 identifier)
MentionHead == NostrPrefix \o NpubPrefix
MentionMinData == 58
MentionMaxData == 59

\* the first position from j on that holds no character of [a-z0-9]
RunEnd(text, j) ==
  CHOOSE k \in j..(Len(text) + 1) :
    /\ k = Len(text) + 1 \/ text[k] \notin WordChars
    /\ \A m \in j..(k - 1) : text[m] \in WordChars

\* the length of the match of mentionRegex that starts at position i, 0 if
\* there is none: {58,59} data characters with a word boundary behind them,
\* which is the whole run of [a-z0-9] or nothing
MentionAt(text, i) ==
  IF i + Len(MentionHead) - 1 <= Len(text)
     /\ SubSeq(text, i, i + Len(MentionHead) - 1) = MentionHead
  THEN LET run == RunEnd(text, i + Len(MentionHead)) - (i + Len(MentionHead))
       IN  IF run >= MentionMinData /\ run <= MentionMaxData
           THEN Len(MentionHead) + run ELSE 0
  ELSE 0

MentionStarts(text) == {i \in 1..Len(text) : MentionAt(text, i) > 0}

\* renderTextWithMentions, from lastIndex on (positions count from 1)
RECURSIVE RenderFrom(_, _)
RenderFrom(text, lastIndex) ==
  LET later == {i \in MentionStarts(text) : i >= lastIndex}
  IN IF later = {}
     THEN IF lastIndex <= Len(text)
          THEN <<TextNode(SubSeq(text, lastIndex, Len(text)))>> ELSE <<>>
     ELSE LET i == CHOOSE m \in later : \A n \in later : m <= n
              fullMention == SubSeq(text, i, i + MentionAt(text, i) - 1)
              beforeText == SubSeq(text, lastIndex, i - 1)
          IN (IF beforeText # <<>> THEN <<TextNode(beforeText)>> ELSE <<>>)
               \o <<Pill(fullMention)>>
               \o RenderFrom(text, i + Len(fullMention))

RenderTextWithMentions(text) == RenderFrom(text, 1)

\* useMentionProfiles: text.match(mentionRegex)
NostrMentions(text) ==
  {SubSeq(text, i, i + MentionAt(text, i) - 1) : i \in MentionStarts(text)}

\* mention.replace('nostr:', '')
IdentifierOf(mention) == SubSeq(mention, Len(NostrPrefix) + 1, Len(mention))

(***************************************************************************)
(* AutocompleteTextarea: edits of the div, handleKeyDown, handleUserSelect *)
(***************************************************************************)
\* the caret: node = 0 is the div itself with the offset counting children;
\* node = k is child k, at a character offset when k is a text node, and the
\* selected contents of the pill when k is a pill (user-select: all)
Caret(k, off) == [node |-> k, offset |-> off]
InDiv(c) == c.node = 0
InPill(ns, c) == c.node # 0 /\ ns[c.node].pill
InText(ns, c) == c.node # 0 /\ ~ns[c.node].pill

ReplaceAt(ns, k, new) == SubSeq(ns, 1, k - 1) \o new \o SubSeq(ns, k + 1, Len(ns))
RemoveAt(ns, k) == ReplaceAt(ns, k, <<>>)
InsertAt(ns, o, new) == SubSeq(ns, 1, o) \o new \o SubSeq(ns, o + 1, Len(ns))

\* what the user pastes or types in one input event
TriggerAb == <<"@", "a", "b">>
Inserts == {TriggerAb, <<" ">>}

\* input events of the user so far: the handleInput calls that were not made
\* by handleUserSelect
UserEdits == inputCount - selectOutcome.inserted

\* the mentions of the new text useMentionProfiles starts a fetch for
NewFetches(newText) ==
  {m \in NostrMentions(newText) :
     m \notin mentionedProfiles /\ ParseIdentifier(IdentifierOf(m)) # "null"}

\* handleInput on the div holding ns with the caret at c; close tells that the
\* caller ends with setShowDropdown(false) and setSuggestions([]).  When
\* onChange changes the value prop, the effect on [value, mentionedProfiles]
\* runs and resets isInternalUpdate, and useMentionProfiles looks at the text.
DomHandleInput(ns, c, close) ==
  LET newText == HtmlToPlainText(ns)
      eff == InputEffect(GetTextBeforeCursor(ns, c))
  IN /\ nodes' = ns
     /\ caret' = c
     /\ gratitudeText' = newText
     /\ isInternalUpdate' = (newText = gratitudeText)
     /\ mentionFetches' = IF newText = gratitudeText THEN mentionFetches
                          ELSE mentionFetches \cup NewFetches(newText)
     /\ textBeforeCursor' = GetTextBeforeCursor(ns, c)
     /\ inputCount' = inputCount + 1
     /\ searching' = eff.searching
     /\ debounceTimeout' = eff.debounceTimeout
     /\ edTimers' = eff.edTimers
     /\ showDropdown' = IF close THEN FALSE ELSE eff.showDropdown
     /\ suggestions' = IF close THEN <<>> ELSE eff.suggestions
     /\ suggestionsFrom' = IF close THEN <<0, 0>> ELSE eff.suggestionsFrom
     /\ UNCHANGED <<inflight, searchCalls, mentionedProfiles>>

\* an insertText or paste of s: handleBeforeInput, the browser's insertion at
\* the caret, then handleInput.  With a pill selected handleBeforeInput
\* cancels the event and puts the caret behind the pill.
InsertText ==
  /\ UserEdits < MaxEdits
  /\ \E s \in Inserts :
       IF InPill(nodes, caret)
       THEN /\ caret' = Caret(0, caret.node)
            /\ UNCHANGED <<nodes, gratitudeText, isInternalUpdate, mentionedProfiles,
                           mentionFetches, editorVars>>
       ELSE LET k == IF InText(nodes, caret) THEN caret.node
                     ELSE IF caret.offset >= 1 /\ ~nodes[caret.offset].pill THEN caret.offset
                     ELSE IF caret.offset < Len(nodes) /\ ~nodes[caret.offset + 1].pill
                     THEN caret.offset + 1
                     ELSE 0
                off == IF InText(nodes, caret) THEN caret.offset
                       ELSE IF k = caret.offset /\ k # 0 THEN Len(nodes[k].text) ELSE 0
            IN IF k = 0
               THEN DomHandleInput(InsertAt(nodes, caret.offset, <<TextNode(s)>>),
                                   Caret(caret.offset + 1, Len(s)), FALSE)
               ELSE DomHandleInput(
                      ReplaceAt(nodes, k,
                        <<TextNode(SubSeq(nodes[k].text, 1, off) \o s
                                     \o SubSeq(nodes[k].text, off + 1, Len(nodes[k].text)))>>),
                      Caret(k, off + Len(s)), FALSE)
  /\ UNCHANGED <<highlightedIndex, selectOutcome>>
  /\ UNCHANGED nonEditorDomVars

\* Backspace: handleKeyDown removes a selected pill, or the pill in front of
\* a caret at the start of a text node; otherwise the browser deletes the
\* character, or the pill, in front of the caret; then handleInput
PressBackspace ==
  /\ UserEdits < MaxEdits
  /\ \/ /\ InPill(nodes, caret)
        /\ DomHandleInput(RemoveAt(nodes, caret.node), Caret(0, caret.node - 1), FALSE)
     \/ /\ InText(nodes, caret)
        /\ caret.offset = 0
        /\ caret.node > 1
        /\ nodes[caret.node - 1].pill
        /\ DomHandleInput(RemoveAt(nodes, caret.node - 1), Caret(caret.node - 1, 0), FALSE)
     \/ /\ InText(nodes, caret)
        /\ caret.offset > 0
        /\ LET t == nodes[caret.node].text
           IN DomHandleInput(
                ReplaceAt(nodes, caret.node,
                  <<TextNode(SubSeq(t, 1, caret.offset - 1) \o SubSeq(t, caret.offset + 1, Len(t)))>>),
                Caret(caret.node, caret.offset - 1), FALSE)
     \/ /\ InDiv(caret)
        /\ caret.offset >= 1
        /\ nodes[caret.offset].pill
        /\ DomHandleInput(RemoveAt(nodes, caret.offset), Caret(0, caret.offset - 1), FALSE)
     \/ /\ InDiv(caret)
        /\ caret.offset >= 1
        /\ ~nodes[caret.offset].pill
        /\ nodes[caret.offset].text # <<>>
        /\ LET t == nodes[caret.offset].text
           IN DomHandleInput(
                ReplaceAt(nodes, caret.offset, <<TextNode(SubSeq(t, 1, Len(t) - 1))>>),
                Caret(caret.offset, Len(t) - 1), FALSE)
  /\ UNCHANGED <<highlightedIndex, selectOutcome>>
  /\ UNCHANGED nonEditorDomVars

\* Delete: handleKeyDown removes the pill behind a caret at the end of a text
\* node; otherwise the browser deletes the character, or the pill, behind the
\* caret; then handleInput.  With a pill selected handleBeforeInput cancels
\* the deletion.
PressDelete ==
  /\ UserEdits < MaxEdits
  /\ \/ /\ InText(nodes, caret)
        /\ caret.offset = Len(nodes[caret.node].text)
        /\ caret.node < Len(nodes)
        /\ nodes[caret.node + 1].pill
        /\ DomHandleInput(RemoveAt(nodes, caret.node + 1), caret, FALSE)
     \/ /\ InText(nodes, caret)
        /\ caret.offset < Len(nodes[caret.node].text)
        /\ LET t == nodes[caret.node].text
           IN DomHandleInput(
                ReplaceAt(nodes, caret.node,
                  <<TextNode(SubSeq(t, 1, caret.offset) \o SubSeq(t, caret.offset + 2, Len(t)))>>),
                caret, FALSE)
     \/ /\ InDiv(caret)
        /\ caret.offset < Len(nodes)
        /\ nodes[caret.offset + 1].pill
        /\ DomHandleInput(RemoveAt(nodes, caret.offset + 1), caret, FALSE)
  /\ UNCHANGED <<highlightedIndex, selectOutcome>>
  /\ UNCHANGED nonEditorDomVars

\* where a click next to a pill puts the caret in child k: at the start of a
\* text node that follows a pill, at the end of one that precedes a pill, or
\* the pill clicked is selected
ClickPositions(ns, k) ==
  IF ns[k].pill THEN {0}
  ELSE {off \in {0, Len(ns[k].text)} :
          /\ ns[k].text # <<>>
          /\ \/ off = 0 /\ k > 1 /\ ns[k - 1].pill
             \/ off = Len(ns[k].text) /\ k < Len(ns) /\ ns[k + 1].pill}

\* a click in the div
ClickCaret ==
  /\ \E k \in 1..Len(nodes) :
       \E off \in ClickPositions(nodes, k) :
         /\ caret # Caret(k, off)
         /\ caret' = Caret(k, off)
  /\ UNCHANGED <<nodes, gratitudeText, isInternalUpdate, mentionedProfiles, mentionFetches,
                 highlightedIndex, selectOutcome, editorVars>>
  /\ UNCHANGED nonEditorDomVars

\* how handleUserSelect ended: calls made, pills inserted, the profile passed
\* to the last call and its end
Selected(n, ins, profile, result) ==
  [calls |-> n, inserted |-> ins, profile |-> profile, result |-> result]

\* handleUserSelect(profile); profile is "undefined" when the caller indexed
\* suggestions out of range.  range.setStart throws IndexSizeError when the
\* match is longer than what the caret's container holds in front of the
\* caret; profile.pubkey throws TypeError, after the match was deleted, when
\* there is no profile.
HandleUserSelect(profile) ==
  LET tb == GetTextBeforeCursor(nodes, caret)
      i == LastNonWord(tb)
      atMatch == AtMatch(tb, i)
      nostrMatch == NostrMatch(tb, i)
      matchLen == IF atMatch # <<>> THEN Len(atMatch) + 1
                  ELSE IF nostrMatch # <<>> THEN Len(nostrMatch) + Len(NostrPrefix)
                  ELSE 0
      canSetStart == matchLen = 0 \/ (~InPill(nodes, caret) /\ caret.offset >= matchLen)
      \* the div after range.deleteContents(), and the collapsed range
      ns1 == IF matchLen = 0 THEN nodes
             ELSE IF InDiv(caret)
             THEN SubSeq(nodes, 1, caret.offset - matchLen)
                    \o SubSeq(nodes, caret.offset + 1, Len(nodes))
             ELSE LET t == nodes[caret.node].text
                  IN ReplaceAt(nodes, caret.node,
                       <<TextNode(SubSeq(t, 1, caret.offset - matchLen)
                                    \o SubSeq(t, caret.offset + 1, Len(t)))>>)
      c1 == Caret(caret.node, caret.offset - matchLen)
      pill == Pill(MentionOf(profile))
      space == TextNode(<<" ", " ">>)
      \* insertNode splits the text node the range starts in
      ns2 == IF InDiv(c1) THEN InsertAt(ns1, c1.offset, <<pill, space>>)
             ELSE LET t == ns1[c1.node].text
                  IN ReplaceAt(ns1, c1.node,
                       <<TextNode(SubSeq(t, 1, c1.offset)), pill, space,
                         TextNode(SubSeq(t, c1.offset + 1, Len(t)))>>)
      c2 == IF InDiv(c1) THEN Caret(0, c1.offset + 2) ELSE Caret(0, c1.node + 2)
  IN /\ selectOutcome.calls < MaxSelects
     /\ IF ~canSetStart
        THEN /\ selectOutcome' = Selected(selectOutcome.calls + 1, selectOutcome.inserted,
                                          profile, "threw")
             /\ UNCHANGED <<nodes, caret, gratitudeText, isInternalUpdate, mentionedProfiles,
                            mentionFetches, editorVars>>
        ELSE IF profile = "undefined"
        THEN /\ selectOutcome' = Selected(selectOutcome.calls + 1, selectOutcome.inserted,
                                          profile, "threw")
             /\ nodes' = ns1
             /\ caret' = c1
             /\ UNCHANGED <<gratitudeText, isInternalUpdate, mentionedProfiles,
                            mentionFetches, editorVars>>
        ELSE /\ selectOutcome' = Selected(selectOutcome.calls + 1, selectOutcome.inserted + 1,
                                          profile, "inserted")
             /\ DomHandleInput(ns2, c2, TRUE)
     /\ UNCHANGED highlightedIndex
     /\ UNCHANGED nonEditorDomVars

\* onMouseDown on a row of the open dropdown
ClickSuggestion ==
  /\ showDropdown
  /\ \E j \in 1..Len(suggestions) : HandleUserSelect(suggestions[j])

\* handleKeyDown: Enter with highlightedIndex > -1
PressEnter ==
  /\ highlightedIndex > -1
  /\ HandleUserSelect(IF highlightedIndex < Len(suggestions)
                      THEN suggestions[highlightedIndex + 1] ELSE "undefined")

\* handleKeyDown: ArrowDown
ArrowDownTo(prev, n) == IF prev < n - 1 THEN prev + 1 ELSE prev

\* handleKeyDown: ArrowUp
ArrowUpTo(prev) == IF prev > 0 THEN prev - 1 ELSE prev

PressArrowDown ==
  /\ highlightedIndex' = ArrowDownTo(highlightedIndex, Len(suggestions))
  /\ UNCHANGED <<nodes, caret, gratitudeText, isInternalUpdate, mentionedProfiles,
                 mentionFetches, selectOutcome, editorVars>>
  /\ UNCHANGED nonEditorDomVars

PressArrowUp ==
  /\ highlightedIndex' = ArrowUpTo(highlightedIndex)
  /\ UNCHANGED <<nodes, caret, gratitudeText, isInternalUpdate, mentionedProfiles,
                 mentionFetches, selectOutcome, editorVars>>
  /\ UNCHANGED nonEditorDomVars

\* handleKeyDown: Escape
PressEscape ==
  /\ showDropdown' = FALSE
  /\ UNCHANGED <<textBeforeCursor, inputCount, debounceTimeout, edTimers, inflight,
                 suggestions, searching, searchCalls, suggestionsFrom>>
  /\ UNCHANGED domVars
  /\ UNCHANGED nonEditorDomVars

\* a fetchProfile of useMentionProfiles settles.  With a profile the Map is
\* replaced and the effect on [value, mentionedProfiles] runs: it resets
\* isInternalUpdate, or sets innerHTML from the value prop, which leaves the
\* selection at the start of the div.
MentionProfileResponse ==
  /\ \E m \in mentionFetches, found \in BOOLEAN :
       /\ mentionFetches' = mentionFetches \ {m}
       /\ IF ~found
          THEN UNCHANGED <<nodes, caret, isInternalUpdate, mentionedProfiles>>
          ELSE /\ mentionedProfiles' = mentionedProfiles \cup {m}
               /\ isInternalUpdate' = FALSE
               /\ IF isInternalUpdate
                  THEN UNCHANGED <<nodes, caret>>
                  ELSE /\ nodes' = RenderTextWithMentions(gratitudeText)
                       /\ caret' = Caret(0, 0)
  /\ UNCHANGED <<gratitudeText, highlightedIndex, selectOutcome, editorVars>>
  /\ UNCHANGED nonEditorDomVars

\* the pieces of the texts a parent passes as value: a mention, a letter, a
\* space and a full stop
ValuePieces == {MentionOf("pkA"), <<"a">>, <<" ">>, <<".">>}

RECURSIVE ValueTexts(_)
ValueTexts(n) ==
  IF n = 0 THEN {<<>>}
  ELSE LET shorter == ValueTexts(n - 1)
       IN shorter \cup {t \o piece : t \in shorter, piece \in ValuePieces}

\* the effect on [value, mentionedProfiles] after the mount: the div gets the
\* markup of renderTextWithMentions(value)
RenderEffect ==
  /\ inputCount = 0
  /\ nodes = <<>>
  /\ gratitudeText # <<>>
  /\ IF isInternalUpdate
     THEN isInternalUpdate' = FALSE /\ UNCHANGED <<nodes, caret>>
     ELSE /\ nodes' = RenderTextWithMentions(gratitudeText)
          /\ caret' = Caret(0, 0)
          /\ UNCHANGED isInternalUpdate
  /\ UNCHANGED <<gratitudeText, mentionedProfiles, mentionFetches, highlightedIndex,
                 selectOutcome, editorVars>>
  /\ UNCHANGED nonEditorDomVars

\* the user types into the div once it shows the value
TypeIntoRendered == (gratitudeText = <<>> \/ nodes # <<>>) /\ InsertText

RenderNext == RenderEffect \/ TypeIntoRendered

\* the div under edits, clicks and accepted suggestions
MentionNext ==
  \/ InsertText
  \/ PressBackspace
  \/ PressDelete
  \/ ClickCaret
  \/ ClickSuggestion
  \/ MentionProfileResponse
  \/ DebounceFires
  \/ SearchResponse
  \/ LookupResponse

\* the div under the keyboard alone
KeysNext ==
  \/ InsertText
  \/ PressBackspace
  \/ PressArrowDown
  \/ PressArrowUp
  \/ PressEnter
  \/ PressEscape
  \/ DebounceFires
  \/ SearchResponse
  \/ LookupResponse

(***************************************************************************)
(* Zap detector: queryRelay and selectRandomZapper                         *)
(***************************************************************************)
Relays == 1..NumRelays

\* the excludePubkeys argument of the call
ExcludeSet == {"pkX"}

\* A zap receipt: its id, its reference tag ("e", "a" or "none"), its bolt11
\* tag ("missing": no tag or no value, "bad": the decoder throws, "ok": it
\* decodes to sats) and its description tag ("missing", "bad json",
\* "no pubkey", or the pubkey in the parsed zap request; "bogus" is a pubkey
\* that nip19.npubEncode rejects).
Receipt(id, ref, bolt11, sats, desc) ==
  [id |-> id, ref |-> ref, bolt11 |-> bolt11, sats |-> sats, desc |-> desc]

\* the receipts a relay may deliver; the first two share their id
ReceiptCatalogue ==
  { Receipt(1, "e", "ok", 11, "pkA"),
    Receipt(1, "e", "ok", 10, "pkA"),
    Receipt(2, "a", "ok", 11, "pkB"),
    Receipt(2, "none", "ok", 11, "pkA"),
    Receipt(2, "e", "bad", 0, "pkA"),
    Receipt(2, "e", "missing", 0, "pkA"),
    Receipt(2, "e", "ok", 11, "pkX"),
    Receipt(2, "e", "ok", 11, "bogus"),
    Receipt(2, "e", "ok", 11, "bad json"),
    Receipt(2, "e", "ok", 11, "missing"),
    Receipt(2, "e", "ok", 11, "no pubkey") }

\* selectRandomZapper has not returned / returned null
NoResult == [zapperPubkey |-> "none", amount |-> 0]
NullResult == [zapperPubkey |-> "null", amount |-> 0]

RECURSIVE SumLen(_, _)
SumLen(f, rs) ==
  IF rs = {} THEN 0
  ELSE LET r == CHOOSE x \in rs : TRUE IN Len(f[r]) + SumLen(f, rs \ {r})

\* a queryRelay promise resolves once: later resolve calls do nothing
ResolveQuery(qr, r, how) == IF qr[r] = "pending" THEN [qr EXCEPT ![r] = how] ELSE qr

\* Relay.connect(relayUrl) resolves: subscribe and arm the timeout
RelayConnected(r) ==
  /\ zapPc = "awaiting"
  /\ relayState[r] = "connecting"
  /\ relayState' = [relayState EXCEPT ![r] = "open"]
  /\ subOpen' = [subOpen EXCEPT ![r] = TRUE]
  /\ relayTimer' = [relayTimer EXCEPT ![r] = TRUE]
  /\ UNCHANGED <<zapReceipts, resolvedWith, queryResult, zapPc, allEvents, uniqueEvents,
                 amountPassed, processedZaps, zapResult>>
  /\ UNCHANGED nonZapVars

\* Relay.connect(relayUrl) rejects: the catch resolves with no events
RelayConnectFails(r) ==
  /\ zapPc = "awaiting"
  /\ relayState[r] = "connecting"
  /\ relayState' = [relayState EXCEPT ![r] = "failed"]
  /\ queryResult' = ResolveQuery(queryResult, r, "failed")
  /\ UNCHANGED <<subOpen, relayTimer, zapReceipts, resolvedWith, zapPc, allEvents,
                 uniqueEvents, amountPassed, processedZaps, zapResult>>
  /\ UNCHANGED nonZapVars

\* onevent: zapReceipts.push(event); once the last promise has resolved the
\* continuation of Promise.all runs before any further message is handled
RelayEvent(r) ==
  /\ zapPc = "awaiting"
  /\ subOpen[r]
  /\ \E q \in Relays : queryResult[q] = "pending"
  /\ SumLen(zapReceipts, Relays) < MaxDelivered
  /\ \E e \in ReceiptCatalogue :
       zapReceipts' = [zapReceipts EXCEPT ![r] = Append(@, e)]
  /\ UNCHANGED <<relayState, subOpen, relayTimer, resolvedWith, queryResult, zapPc,
                 allEvents, uniqueEvents, amountPassed, processedZaps, zapResult>>
  /\ UNCHANGED nonZapVars

\* oneose: clear the timeout and resolve; the subscription stays open
RelayEose(r) ==
  /\ zapPc = "awaiting"
  /\ subOpen[r]
  /\ queryResult[r] = "pending"
  /\ relayTimer' = [relayTimer EXCEPT ![r] = FALSE]
  /\ queryResult' = ResolveQuery(queryResult, r, "eose")
  /\ resolvedWith' = [resolvedWith EXCEPT ![r] = zapReceipts[r]]
  /\ UNCHANGED <<relayState, subOpen, zapReceipts, zapPc, allEvents, uniqueEvents,
                 amountPassed, processedZaps, zapResult>>
  /\ UNCHANGED nonZapVars

\* the 15 s timer fires: close the subscription and resolve
RelayTimeout(r) ==
  /\ zapPc = "awaiting"
  /\ relayTimer[r]
  /\ relayTimer' = [relayTimer EXCEPT ![r] = FALSE]
  /\ subOpen' = [subOpen EXCEPT ![r] = FALSE]
  /\ queryResult' = ResolveQuery(queryResult, r, "timeout")
  /\ resolvedWith' = IF queryResult[r] = "pending"
                     THEN [resolvedWith EXCEPT ![r] = zapReceipts[r]] ELSE resolvedWith
  /\ UNCHANGED <<relayState, zapReceipts, zapPc, allEvents, uniqueEvents, amountPassed,
                 processedZaps, zapResult>>
  /\ UNCHANGED nonZapVars

\* variant: a timed-out relay resolves with no events, like a failed one
ResultEvents_DropTimeout(how, receipts) == IF how = "eose" THEN receipts ELSE <<>>

\* the events of a queryRelay result: the zapReceipts array itself after
\* EOSE or timeout, a fresh empty list after a failed connect
ResultEvents(how, receipts) == IF how \in {"eose", "timeout"} THEN receipts ELSE <<>>

\* relayResults.forEach(result => allEvents.push(...result.events))
RECURSIVE MergeFrom(_, _, _)
MergeFrom(r, qr, receipts) ==
  IF r > NumRelays THEN <<>>
  ELSE ResultEvents(qr[r], receipts[r]) \o MergeFrom(r + 1, qr, receipts)

\* variant: the Map entry is overwritten, so the last occurrence is kept
MapPutIfAbsent_Overwrite(seen, e) ==
  IF \E k \in 1..Len(seen) : seen[k].id = e.id
  THEN [k \in 1..Len(seen) |-> IF seen[k].id = e.id THEN e ELSE seen[k]]
  ELSE Append(seen, e)

\* if (!eventMap.has(event.id)) eventMap.set(event.id, event): the Map as
\* the list of its values in insertion order
MapPutIfAbsent(seen, e) ==
  IF \E k \in 1..Len(seen) : seen[k].id = e.id THEN seen ELSE Append(seen, e)

RECURSIVE DedupeFrom(_, _, _)
DedupeFrom(events, k, seen) ==
  IF k > Len(events) THEN seen
  ELSE DedupeFrom(events, k + 1, MapPutIfAbsent(seen, events[k]))

\* Array.from(eventMap.values())
Dedupe(events) == DedupeFrom(events, 1, <<>>)

HasReference(e) == e.ref \in {"e", "a"}

\* let amount = 0; decode the bolt11 tag if there is one, ignoring errors
DecodedAmount(e) == IF e.bolt11 = "ok" THEN e.sats ELSE 0

\* variant: the filter lets an amount of exactly 10 through
AmountOk_AtLeast(amount) == amount >= MinZapSats

\* if (amount <= 10) continue
AmountOk(amount) == ~(amount <= MinZapSats)

\* zapEvent?.pubkey of the parsed description, "none" when there is none
ZapperPubkey(e) == IF e.desc \in {"missing", "bad json", "no pubkey"} THEN "none" ELSE e.desc

\* nip19.npubEncode throws for a value that is not a hex key
NpubEncodes(pubkey) == pubkey # "bogus"

\* variant: the exclusion set is not consulted
SenderOk_NoExclusion(pubkey) == pubkey # "none" /\ NpubEncodes(pubkey)

\* if (!zapperPubkey || excludeSet.has(zapperPubkey)) continue; skip if the
\* npub encoding throws
SenderOk(pubkey) == pubkey # "none" /\ pubkey \notin ExcludeSet /\ NpubEncodes(pubkey)

Survives(e) == HasReference(e) /\ AmountOk(DecodedAmount(e)) /\ SenderOk(ZapperPubkey(e))

ZapOf(e) == [zapperPubkey |-> ZapperPubkey(e), amount |-> DecodedAmount(e)]

Swap(seq, i, j) == [seq EXCEPT ![i] = seq[j], ![j] = seq[i]]

\* variant: j is drawn below i only
ShuffleChoices_Below(n) == {js \in [2..n -> 1..n] : \A i \in 2..n : js[i] < i}

\* the choices of Math.random in the Fisher-Yates loop over n elements:
\* for each i from the last index down to the second, a j at or below i
ShuffleChoices(n) == {js \in [2..n -> 1..n] : \A i \in 2..n : js[i] <= i}

RECURSIVE ShuffleFrom(_, _, _)
ShuffleFrom(seq, i, js) ==
  IF i < 2 THEN seq ELSE ShuffleFrom(Swap(seq, i, js[i]), i - 1, js)

\* the Fisher-Yates loop with the draws js
Shuffle(seq, js) == ShuffleFrom(seq, Len(seq), js)

MapSeq(seq, Op(_)) == [k \in 1..Len(seq) |-> Op(seq[k])]

\* the continuation of await Promise.all(...): merge, deduplicate, filter,
\* shuffle and select
ProcessResults ==
  /\ zapPc = "awaiting"
  /\ \A r \in Relays : queryResult[r] # "pending"
  /\ LET merged == MergeFrom(1, queryResult, zapReceipts)
         unique == Dedupe(merged)
         withAmount == SelectSeq(unique, LAMBDA e : HasReference(e) /\ AmountOk(DecodedAmount(e)))
         processed == MapSeq(SelectSeq(unique, Survives), ZapOf)
     IN /\ allEvents' = merged
        /\ uniqueEvents' = unique
        /\ amountPassed' = withAmount
        /\ processedZaps' = processed
        /\ IF Len(processed) = 0
           THEN zapResult' = NullResult
           ELSE \E js \in ShuffleChoices(Len(processed)) :
                  zapResult' = Shuffle(processed, js)[1]
  /\ zapPc' = "done"
  /\ UNCHANGED <<relayState, subOpen, relayTimer, zapReceipts, resolvedWith, queryResult>>
  /\ UNCHANGED nonZapVars

ZapInit ==
  /\ relayState = [r \in Relays |-> "connecting"]
  /\ subOpen = [r \in Relays |-> FALSE]
  /\ relayTimer = [r \in Relays |-> FALSE]
  /\ zapReceipts = [r \in Relays |-> <<>>]
  /\ resolvedWith = [r \in Relays |-> <<>>]
  /\ queryResult = [r \in Relays |-> "pending"]
  /\ zapPc = "awaiting"
  /\ allEvents = <<>>
  /\ uniqueEvents = <<>>
  /\ amountPassed = <<>>
  /\ processedZaps = <<>>
  /\ zapResult = NoResult

ZapNext ==
  \/ \E r \in Relays : RelayConnected(r)
  \/ \E r \in Relays : RelayConnectFails(r)
  \/ \E r \in Relays : RelayEvent(r)
  \/ \E r \in Relays : RelayEose(r)
  \/ \E r \in Relays : RelayTimeout(r)
  \/ ProcessResults

(***************************************************************************)
(* useGratitudeGift: getRecentRecipients and saveRecentRecipient           *)
(***************************************************************************)
Tabs == 1..NumTabs

\* the pubkeys the tabs save
SaveKeys == {"k1", "k2", "k3", "k4", "k5", "k6"}

\* lists a previous session can have left in localStorage
StoredLogs == {<<>>, <<"k1", "k2", "k3", "k4">>}

Range(seq) == {seq[k] : k \in 1..Len(seq)}

\* variant: the pubkey is not removed before it is added
RemoveKey_Keep(recent, pubkey) == recent

\* saveRecentRecipient: recent.filter(p => p !== pubkey)
RemoveKey(recent, pubkey) == SelectSeq(recent, LAMBDA p : p # pubkey)

\* saveRecentRecipient: filtered.unshift(pubkey); filtered.slice(0, 5)
ToStore(recent, pubkey) ==
  LET filtered == <<pubkey>> \o RemoveKey(recent, pubkey)
  IN  SubSeq(filtered, 1, IF Len(filtered) < RecentCap THEN Len(filtered) ELSE RecentCap)

\* saveRecentRecipient(pubkey) in tab t, up to the value getItem returned
SaveRead(t) ==
  /\ tabPc[t] = "idle"
  /\ savesStarted < MaxSaves
  /\ \E pubkey \in SaveKeys :
       /\ tabKey' = [tabKey EXCEPT ![t] = pubkey]
       /\ tabRecent' = [tabRecent EXCEPT ![t] = storage]
  /\ tabPc' = [tabPc EXCEPT ![t] = "read"]
  /\ savesStarted' = savesStarted + 1
  /\ UNCHANGED <<storage, savesDone, lastSaved>>
  /\ UNCHANGED nonRecentVars

\* saveRecentRecipient in tab t, from the filter to setItem
SaveWrite(t) ==
  /\ tabPc[t] = "read"
  /\ storage' = ToStore(tabRecent[t], tabKey[t])
  /\ lastSaved' = tabKey[t]
  /\ savesDone' = savesDone + 1
  /\ tabPc' = [tabPc EXCEPT ![t] = "idle"]
  /\ UNCHANGED <<tabRecent, tabKey, savesStarted>>
  /\ UNCHANGED nonRecentVars

\* setItem throws (storage full or disabled): the catch logs a warning
SaveWriteFails(t) ==
  /\ tabPc[t] = "read"
  /\ tabPc' = [tabPc EXCEPT ![t] = "idle"]
  /\ UNCHANGED <<storage, tabRecent, tabKey, savesStarted, savesDone, lastSaved>>
  /\ UNCHANGED nonRecentVars

RecentIdle ==
  /\ tabPc = [t \in Tabs |-> "idle"]
  /\ tabRecent = [t \in Tabs |-> <<>>]
  /\ tabKey = [t \in Tabs |-> "none"]
  /\ savesStarted = 0
  /\ savesDone = 0
  /\ lastSaved = "none"

RecentInit == storage = <<>> /\ RecentIdle

RecentNext ==
  \/ \E t \in Tabs : SaveRead(t)
  \/ \E t \in Tabs : SaveWrite(t)
  \/ \E t \in Tabs : SaveWriteFails(t)

(***************************************************************************)
(* Profiles on the relays, and isBot                                       *)
(***************************************************************************)
\* the current user's key, when logged in
UserPubkey == "me"

\* authors of the recent posts a relay can return
Authors == {"me", "pkA", "pkF", "pkB", "pkN", "pkL", "pkC", "pkD", "pkE"}

\* a kind-0 event as the selection reads it: whether the relay has one,
\* whether its content parses, and the lud16, lud06 and nip05 fields
\* (<<>>: the field is missing)
ProfileOf(found, jsonOk, lud16, lud06, nip05) ==
  [found |-> found, jsonOk |-> jsonOk, lud16 |-> lud16, lud06 |-> lud06, nip05 |-> nip05]

\* the profile the relays hold for each author
Profile(pk) ==
  CASE pk = "me"  -> ProfileOf(TRUE, TRUE, <<"m", "@", "w">>, <<>>, <<>>)
    [] pk = "pkA" -> ProfileOf(TRUE, TRUE, <<"a", "@", "w">>, <<>>, <<"a", "@", "w">>)
    [] pk = "pkF" -> ProfileOf(TRUE, TRUE, <<>>, <<"l", "n", "u", "r", "l">>, <<>>)
    [] pk = "pkB" -> ProfileOf(TRUE, TRUE, <<"b", "@", "w">>, <<>>, <<"R", "o", "B", "O", "T", "@", "w">>)
    [] pk = "pkN" -> ProfileOf(TRUE, TRUE, <<"n", "@", "w">>, <<>>, <<"N", "e", "w", "s", "@", "w">>)
    [] pk = "pkL" -> ProfileOf(TRUE, TRUE, <<"B", "o", "t", "@", "w">>, <<>>, <<>>)
    [] pk = "pkC" -> ProfileOf(TRUE, TRUE, <<>>, <<>>, <<"c", "@", "w">>)
    [] pk = "pkD" -> ProfileOf(TRUE, FALSE, <<>>, <<>>, <<>>)
    [] OTHER      -> ProfileOf(FALSE, FALSE, <<>>, <<>>, <<>>)

\* the authors with a kind-9734 zap request in the queried period
ZapActive == {"pkA", "pkB"}

\* String.prototype.toLowerCase on the characters the profiles use
LowerChar(c) ==
  CASE c = "B" -> "b"
    [] c = "O" -> "o"
    [] c = "T" -> "t"
    [] c = "R" -> "r"
    [] c = "N" -> "n"
    [] OTHER   -> c

ToLowerCase(str) == [k \in 1..Len(str) |-> LowerChar(str[k])]

\* String.prototype.includes
Includes(str, sub) ==
  \E k \in 1..(Len(str) - Len(sub) + 1) : SubSeq(str, k, k + Len(sub) - 1) = sub

\* variant: the comparison is case-sensitive
IsBot_CaseSensitive(nip05, lightningAddress) ==
  \/ Includes(nip05, <<"b", "o", "t">>)
  \/ Includes(nip05, <<"n", "e", "w", "s">>)
  \/ Includes(lightningAddress, <<"b", "o", "t">>)

\* isBot(nip05, lightningAddress)
IsBot(nip05, lightningAddress) ==
  \/ Includes(ToLowerCase(nip05), <<"b", "o", "t">>)
  \/ Includes(ToLowerCase(nip05), <<"n", "e", "w", "s">>)
  \/ Includes(ToLowerCase(lightningAddress), <<"b", "o", "t">>)

\* profileData.lud16 || profileData.lud06
LightningAddress(profile) == IF profile.lud16 # <<>> THEN profile.lud16 ELSE profile.lud06

(***************************************************************************)
(* useGratitudeGift: selectRandomRecipient                                 *)
(***************************************************************************)
\* the recent posts a query can return, as the sequence of their authors
RECURSIVE SeqsUpTo(_, _)
SeqsUpTo(S, n) ==
  IF n = 0 THEN {<<>>}
  ELSE LET shorter == SeqsUpTo(S, n - 1)
       IN shorter \cup {Append(q, x) : q \in shorter, x \in S}

EventLists == SeqsUpTo(Authors, MaxEvents)

\* Array.from(new Set(list)): first occurrences, in order
RECURSIVE Unique(_)
Unique(list) ==
  IF list = <<>> THEN <<>>
  ELSE LET front == Unique(SubSeq(list, 1, Len(list) - 1))
           last == list[Len(list)]
       IN IF last \in Range(front) THEN front ELSE Append(front, last)

\* variant: recent recipients are not excluded
KeepPubkey_AllowRecent(pk, user, recent) == pk # user

\* the filter on the unique authors: not the current user, not a recent recipient
KeepPubkey(pk, user, recent) ==
  pk # user /\ pk \notin Range(recent)

\* first pass: a fetched profile whose JSON parses, with a lightning address,
\* that isBot does not flag
IsCandidate(pk) ==
  LET profile == Profile(pk)
  IN /\ profile.found
     /\ profile.jsonOk
     /\ LightningAddress(profile) # <<>>
     /\ ~IsBot(profile.nip05, LightningAddress(profile))

\* pubkeys of selectRandomRecipient
PubkeysOf(events, user, recent) ==
  SelectSeq(Unique(events), LAMBDA pk : KeepPubkey(pk, user, recent))

\* candidatesWithLightning of selectRandomRecipient
CandidatesWithLightning(pubkeys) == SelectSeq(pubkeys, IsCandidate)

(***************************************************************************)
(* useGratitudeGift: sendGratitudeGift, with the continuation of the       *)
(* modal's handleSend                                                      *)
(***************************************************************************)
\* the amount argument: a number, or NaN
Amounts == {[nan |-> FALSE, value |-> 0 - 1], [nan |-> FALSE, value |-> 0],
            [nan |-> FALSE, value |-> 21], [nan |-> TRUE, value |-> 0]}

\* useCurrentUser: logged out, or logged in as UserPubkey
Users == {"none", UserPubkey}

\* amount <= 0 (false for NaN)
AmountLeqZero(amount) == ~amount.nan /\ amount.value <= 0

NoInput == [called |-> FALSE, user |-> "none", amount |-> [nan |-> FALSE, value |-> 0]]
NoGiftResult == [returned |-> FALSE, success |-> FALSE, invoice |-> FALSE]
GiftResult(success, invoice) == [returned |-> TRUE, success |-> success, invoice |-> invoice]

Attempt(channel, result) == [channel |-> channel, result |-> result]

\* sendGratitudeGift returns result; handleSend of the modal continues with it
Return(result, title, att) ==
  /\ giftPc' = "idle"
  /\ isSending' = FALSE
  /\ giftResult' = result
  /\ toast' = title
  /\ attempts' = att
  /\ IF result.success
     THEN paymentState' = "success" /\ UNCHANGED invoiceInfo
     ELSE IF result.invoice
     THEN paymentState' = "invoice" /\ invoiceInfo' = TRUE
     ELSE UNCHANGED <<paymentState, invoiceInfo>>

\* selectRandomRecipient returned null: toast, setIsSending(false), return
NoRecipient == Return(GiftResult(FALSE, FALSE), "No recipient found", attempts)

\* the catch block of sendGratitudeGift
GiftFailed == Return(GiftResult(FALSE, FALSE), "Gift failed", attempts)

\* sendGratitudeGift(amount, message): validation, then selectRandomRecipient
\* up to its first relay query; the modal is mounted, so the test page, which
\* is another route, is not and holds no results
SendGratitudeGift ==
  /\ giftPc = "idle"
  /\ paymentState = "form"
  /\ ~tgResult.ran
  /\ giftCalls < MaxGifts
  /\ giftCalls' = giftCalls + 1
  /\ \E user \in Users, amount \in Amounts :
       /\ gInput' = [called |-> TRUE, user |-> user, amount |-> amount]
       /\ recipient' = "null"
       /\ gEvents' = <<>>
       /\ queryFailed' = FALSE
       /\ attempts' = <<>>
       /\ giftResult' = IF user = "none" \/ AmountLeqZero(amount)
                        THEN GiftResult(FALSE, FALSE) ELSE NoGiftResult
       /\ IF user = "none"
          THEN /\ toast' = "Login required"
               /\ UNCHANGED <<giftPc, isSending>>
               /\ usedNetwork' = FALSE
               /\ recentRecipients' = <<>>
          ELSE IF AmountLeqZero(amount)
          THEN /\ toast' = "Invalid amount"
               /\ UNCHANGED <<giftPc, isSending>>
               /\ usedNetwork' = FALSE
               /\ recentRecipients' = <<>>
          ELSE /\ toast' = "none"
               /\ isSending' = TRUE
               /\ recentRecipients' = storage
               /\ usedNetwork' = TRUE
               /\ giftPc' = "events"
  /\ UNCHANGED <<bgZapQuery, publishLog, paymentState, invoiceInfo, verifyCalls,
                 verifyStarted, storage>>
  /\ UNCHANGED nonGiftVars

\* the query for recent posts settles
EventsResponse ==
  /\ giftPc = "events"
  /\ \E ok \in BOOLEAN, events \in {relayEvents} :
       IF ~ok
       THEN /\ queryFailed' = TRUE
            /\ UNCHANGED gEvents
            /\ NoRecipient
       ELSE /\ gEvents' = events
            /\ UNCHANGED queryFailed
            /\ IF events = <<>> \/ PubkeysOf(events, gInput.user, recentRecipients) = <<>>
               THEN NoRecipient
               ELSE /\ giftPc' = "profiles"
                    /\ UNCHANGED <<isSending, giftResult, toast, attempts, paymentState,
                                   invoiceInfo>>
  /\ UNCHANGED <<giftCalls, gInput, recentRecipients, recipient, usedNetwork, bgZapQuery,
                 publishLog, verifyCalls, verifyStarted, storage>>
  /\ UNCHANGED nonGiftVars

\* the batch query for profiles settles: candidates, the fire-and-forget zap
\* query, the random choice, then saveRecentRecipient and getZapEndpoint
ProfilesResponse ==
  /\ giftPc = "profiles"
  /\ \E ok \in BOOLEAN, saveOk \in BOOLEAN :
       LET pubkeys == PubkeysOf(gEvents, gInput.user, recentRecipients)
           candidatesWithLightning == CandidatesWithLightning(pubkeys)
           validRecipients == candidatesWithLightning
       IN IF ~ok
          THEN /\ saveOk
               /\ queryFailed' = TRUE
               /\ NoRecipient
               /\ UNCHANGED <<recipient, bgZapQuery, storage>>
          ELSE IF candidatesWithLightning = <<>>
          THEN /\ saveOk
               /\ NoRecipient
               /\ UNCHANGED <<queryFailed, recipient, bgZapQuery, storage>>
          ELSE /\ bgZapQuery' = TRUE
               /\ \E selected \in Range(validRecipients) :
                    /\ recipient' = selected
                    /\ storage' = IF saveOk THEN ToStore(storage, selected) ELSE storage
               /\ giftPc' = "endpoint"
               /\ UNCHANGED <<queryFailed, isSending, giftResult, toast, attempts,
                              paymentState, invoiceInfo>>
  /\ UNCHANGED <<giftCalls, gInput, recentRecipients, gEvents, usedNetwork, publishLog,
                 verifyCalls, verifyStarted>>
  /\ UNCHANGED nonGiftVars

\* the background zap request query settles: it only logs
BackgroundZapResponse ==
  /\ bgZapQuery
  /\ bgZapQuery' = FALSE
  /\ UNCHANGED <<giftPc, giftCalls, isSending, gInput, recentRecipients, gEvents,
                 queryFailed, recipient, usedNetwork, toast, attempts, giftResult,
                 publishLog, modalVars, storage>>
  /\ UNCHANGED nonGiftVars

\* nip57.getZapEndpoint settles; the locals of the selection are gone
EndpointResponse ==
  /\ giftPc = "endpoint"
  /\ \E how \in {"found", "none", "throws"} :
       /\ IF how = "found"
          THEN /\ giftPc' = "sign"
               /\ UNCHANGED <<isSending, giftResult, toast, attempts, paymentState,
                              invoiceInfo>>
          ELSE IF how = "none"
          THEN Return(GiftResult(FALSE, FALSE), "Zap endpoint not found", attempts)
          ELSE GiftFailed
  /\ recentRecipients' = <<>>
  /\ gEvents' = <<>>
  /\ UNCHANGED <<giftCalls, gInput, queryFailed, recipient, usedNetwork, bgZapQuery, publishLog,
                 verifyCalls, verifyStarted, storage>>
  /\ UNCHANGED nonGiftVars

\* user.signer.signEvent settles; on success the invoice fetch starts
SignResponse ==
  /\ giftPc = "sign"
  /\ \E ok \in BOOLEAN :
       IF ok
       THEN /\ giftPc' = "invoice"
            /\ UNCHANGED <<isSending, giftResult, toast, attempts, paymentState,
                           invoiceInfo>>
       ELSE GiftFailed
  /\ UNCHANGED <<giftCalls, gInput, recentRecipients, gEvents, queryFailed, recipient, usedNetwork,
                 bgZapQuery, publishLog, verifyCalls, verifyStarted, storage>>
  /\ UNCHANGED nonGiftVars

\* no automatic payment: setIsSending(false), return the invoice
ReturnInvoice(att) == Return(GiftResult(FALSE, TRUE), "none", att)

\* the default wallet app: none configured, opened, or it could not be opened;
\* without an opened wallet app the invoice is returned for manual payment
TryWalletApp(att) ==
  \E wallet \in {"none", "opened", "failed"} :
    IF wallet = "opened"
    THEN ReturnInvoice(Append(att, Attempt("wallet", "opened")))
    ELSE ReturnInvoice(Append(Append(att, Attempt("wallet", IF wallet = "none"
                                                            THEN "unavailable" ELSE "failed")),
                              Attempt("manual", "invoice")))

\* variant: a failing enable() gives up on WebLN
AfterEnable_Skip(enableOk) == IF enableOk THEN "weblnPay" ELSE "wallet"

\* after webln.enable() settled, either way: webLnProvider.sendPayment(invoice)
AfterEnable(enableOk) == "weblnPay"

\* if (webln): none, a provider without enable, or one with enable
TryWebLN(att) ==
  \E webln \in {"none", "plain", "enable"} :
    IF webln = "none"
    THEN TryWalletApp(Append(att, Attempt("webln", "unavailable")))
    ELSE /\ giftPc' = IF webln = "enable" THEN "weblnEnable" ELSE "weblnPay"
         /\ attempts' = att
         /\ UNCHANGED <<isSending, giftResult, toast, paymentState, invoiceInfo>>

\* handlePaymentSuccess: publishZapRequest is called and awaited
HandlePaymentSuccess(att, channel) ==
  /\ giftPc' = "publish"
  /\ attempts' = Append(att, Attempt(channel, "paid"))
  /\ publishLog' = publishLog \cup {[by |-> channel, isPaid |-> TRUE]}
  /\ UNCHANGED <<isSending, giftResult, toast, paymentState, invoiceInfo>>

\* the invoice fetch settles: not ok, no pr, a rejection, or an invoice; with
\* an invoice the payment starts at the wallet connection
InvoiceResponse ==
  /\ giftPc = "invoice"
  /\ \E how \in {"invoice", "not ok", "no pr", "throws"}, nwc \in BOOLEAN :
       IF how # "invoice"
       THEN /\ nwc
            /\ GiftFailed
       ELSE IF nwc
       THEN /\ giftPc' = "nwc"
            /\ UNCHANGED <<isSending, giftResult, toast, attempts, paymentState,
                           invoiceInfo>>
       ELSE TryWebLN(Append(attempts, Attempt("nwc", "unavailable")))
  /\ UNCHANGED <<giftCalls, gInput, recentRecipients, gEvents, queryFailed, recipient, usedNetwork,
                 bgZapQuery, publishLog, verifyCalls, verifyStarted, storage>>
  /\ UNCHANGED nonGiftVars

\* sendPayment over the wallet connection settles
NwcResponse ==
  /\ giftPc = "nwc"
  /\ \E paid \in BOOLEAN :
       IF paid
       THEN HandlePaymentSuccess(attempts, "nwc")
       ELSE /\ TryWebLN(Append(attempts, Attempt("nwc", "failed")))
            /\ UNCHANGED publishLog
  /\ UNCHANGED <<giftCalls, gInput, recentRecipients, gEvents, queryFailed, recipient, usedNetwork,
                 bgZapQuery, verifyCalls, verifyStarted, storage>>
  /\ UNCHANGED nonGiftVars

\* webln.enable() settles
WeblnEnableResponse ==
  /\ giftPc = "weblnEnable"
  /\ \E enableOk \in BOOLEAN :
       LET att == Append(attempts, Attempt("enable", IF enableOk THEN "enabled" ELSE "failed"))
       IN IF AfterEnable(enableOk) = "weblnPay"
          THEN /\ giftPc' = "weblnPay"
               /\ attempts' = att
               /\ UNCHANGED <<isSending, giftResult, toast, paymentState, invoiceInfo>>
          ELSE TryWalletApp(att)
  /\ UNCHANGED <<giftCalls, gInput, recentRecipients, gEvents, queryFailed, recipient, usedNetwork,
                 bgZapQuery, publishLog, verifyCalls, verifyStarted, storage>>
  /\ UNCHANGED nonGiftVars

\* webLnProvider.sendPayment settles
WeblnPayResponse ==
  /\ giftPc = "weblnPay"
  /\ \E paid \in BOOLEAN :
       IF paid
       THEN HandlePaymentSuccess(attempts, "webln")
       ELSE /\ TryWalletApp(Append(attempts, Attempt("webln", "failed")))
            /\ UNCHANGED publishLog
  /\ UNCHANGED <<giftCalls, gInput, recentRecipients, gEvents, queryFailed, recipient, usedNetwork,
                 bgZapQuery, verifyCalls, verifyStarted, storage>>
  /\ UNCHANGED nonGiftVars

\* variant: a failed publish makes the call fail
PublishSettled_Propagates(how) == how = "ok"

\* publishZapRequest: try { await nostr.event(...) } catch { console.warn },
\* so handlePaymentSuccess goes on whatever the publish did
PublishSettled(how) == TRUE

\* the publish of handlePaymentSuccess settles: published, timed out or threw
PublishResponse ==
  /\ giftPc = "publish"
  /\ \E how \in {"ok", "timeout", "throws"} :
       IF PublishSettled(how)
       THEN Return(GiftResult(TRUE, FALSE), "none", Append(attempts, Attempt("publish", how)))
       ELSE Return(GiftResult(FALSE, FALSE), "Gift failed",
                   Append(attempts, Attempt("publish", how)))
  /\ UNCHANGED <<giftCalls, gInput, recentRecipients, gEvents, queryFailed, recipient, usedNetwork,
                 bgZapQuery, publishLog, verifyCalls, verifyStarted, storage>>
  /\ UNCHANGED nonGiftVars

(***************************************************************************)
(* GratitudeGiftModal: polling, "I've Paid", close; verifyAndPublishPayment *)
(***************************************************************************)
\* a verifyAndPublishPayment call in flight: its forcePublish argument and the
\* await it is suspended at; verifyCalls is the bag of them
VerifyCall(force, pc) == [force |-> force, pc |-> pc]

\* variant: the zap request is published whatever the check said
ShouldPublish_Always(isPaid, forcePublish) == TRUE

\* verifyAndPublishPayment: if (isPaid || forcePublish)
ShouldPublish(isPaid, forcePublish) == isPaid \/ forcePublish

\* the polling effect: the initial check and every tick of the 3 s interval
\* call verifyAndPublishPayment(..., false), which awaits checkInvoiceStatus
PollPayment ==
  /\ paymentState = "invoice"
  /\ invoiceInfo
  /\ verifyStarted < MaxVerify
  /\ verifyStarted' = verifyStarted + 1
  /\ verifyCalls' = verifyCalls (+) SetToBag({VerifyCall(FALSE, "check")})
  /\ UNCHANGED <<callVars, publishLog, paymentState, invoiceInfo, storage>>
  /\ UNCHANGED nonGiftVars

\* the "I've Paid - Confirm" button calls verifyAndPublishPayment(..., true)
ConfirmPaid ==
  /\ paymentState = "invoice"
  /\ invoiceInfo
  /\ verifyStarted < MaxVerify
  /\ verifyStarted' = verifyStarted + 1
  /\ verifyCalls' = verifyCalls (+) SetToBag({VerifyCall(TRUE, "check")})
  /\ UNCHANGED <<callVars, publishLog, paymentState, invoiceInfo, storage>>
  /\ UNCHANGED nonGiftVars

\* checkInvoiceStatus settles (it catches every error and then gives false)
CheckResponse ==
  \E c \in BagToSet(verifyCalls), isPaid \in BOOLEAN :
    /\ c.pc = "check"
    /\ IF ShouldPublish(isPaid, c.force)
       THEN /\ verifyCalls' = (verifyCalls (-) SetToBag({c})) (+)
                                SetToBag({VerifyCall(c.force, "publish")})
            /\ publishLog' = publishLog \cup
                 {[by |-> IF c.force THEN "confirm" ELSE "poll", isPaid |-> isPaid]}
       ELSE /\ verifyCalls' = verifyCalls (-) SetToBag({c})
            /\ UNCHANGED publishLog
    /\ UNCHANGED <<callVars, paymentState, invoiceInfo, verifyStarted, storage>>
    /\ UNCHANGED nonGiftVars

\* the publish of verifyAndPublishPayment settles; the call returns true and
\* its caller shows the success view
VerifyPublishResponse ==
  \E c \in BagToSet(verifyCalls) :
    /\ c.pc = "publish"
    /\ verifyCalls' = verifyCalls (-) SetToBag({c})
    /\ paymentState' = "success"
    /\ UNCHANGED <<callVars, publishLog, invoiceInfo, verifyStarted, storage>>
    /\ UNCHANGED nonGiftVars

\* handleClose: the interval is cleared and the modal goes back to the form
HandleClose ==
  /\ paymentState # "form" \/ invoiceInfo
  /\ paymentState' = "form"
  /\ invoiceInfo' = FALSE
  /\ UNCHANGED <<callVars, publishLog, verifyCalls, verifyStarted, storage>>
  /\ UNCHANGED nonGiftVars

\* the state of useGratitudeGift, the modal and the test page after mounting
GiftIdle ==
  /\ giftPc = "idle"
  /\ giftCalls = 0
  /\ isSending = FALSE
  /\ gInput = NoInput
  /\ recentRecipients = <<>>
  /\ gEvents = <<>>
  /\ queryFailed = FALSE
  /\ recipient = "null"
  /\ usedNetwork = FALSE
  /\ toast = "none"
  /\ attempts = <<>>
  /\ giftResult = NoGiftResult
  /\ bgZapQuery = FALSE
  /\ publishLog = {}
  /\ paymentState = "form"
  /\ invoiceInfo = FALSE
  /\ verifyCalls = EmptyBag
  /\ verifyStarted = 0

GiftInit == relayEvents = <<>> /\ GiftIdle

\* selectRandomRecipient inside sendGratitudeGift
SelectNext ==
  \/ SendGratitudeGift
  \/ EventsResponse
  \/ ProfilesResponse
  \/ BackgroundZapResponse

GiftNext ==
  \/ SelectNext
  \/ EndpointResponse
  \/ SignResponse
  \/ InvoiceResponse
  \/ NwcResponse
  \/ WeblnEnableResponse
  \/ WeblnPayResponse
  \/ PublishResponse
  \/ PollPayment
  \/ ConfirmPaid
  \/ CheckResponse
  \/ VerifyPublishResponse
  \/ HandleClose

(***************************************************************************)
(* TestNpubGenerator: testGenerator                                        *)
(***************************************************************************)
\* gratitudeGift_lastRecipient in localStorage: nothing, or a key
LastRecipients == {"null", "pkA"}

NoTestResult == [ran |-> FALSE, pubkeysWithLightning |-> <<>>, usersWithZaps |-> {},
                 selectedPubkey |-> "null"]

\* the filter on the unique authors of testGenerator
TestKeepPubkey(pk, user, lastRecipient) == pk # user /\ pk # lastRecipient

\* first pass of testGenerator: a parsed profile with a lightning address (a
\* bot is flagged, not dropped)
HasLightning(pk) ==
  LET profile == Profile(pk)
  IN profile.found /\ profile.jsonOk /\ LightningAddress(profile) # <<>>

\* variant: no fallback to all candidates
TestValidRecipients_NoFallback(pubkeysWithLightning, usersWithZaps) ==
  SelectSeq(pubkeysWithLightning, LAMBDA pk : pk \in usersWithZaps)

\* validRecipients of testGenerator: the candidates with zap activity, all
\* candidates if there is none
TestValidRecipients(pubkeysWithLightning, usersWithZaps) ==
  LET zapped == SelectSeq(pubkeysWithLightning, LAMBDA pk : pk \in usersWithZaps)
  IN IF zapped = <<>> /\ pubkeysWithLightning # <<>> THEN pubkeysWithLightning ELSE zapped

\* testGenerator, with what its three relay queries gave; the test page is
\* mounted, so the modal is not and no gift was sent from it
TestGenerator ==
  /\ giftPc = "idle"
  /\ giftCalls = 0
  /\ \E events \in {relayEvents}, user \in Users, lastRecipient \in LastRecipients,
        eventsOk \in BOOLEAN, profilesOk \in BOOLEAN, zapOk \in BOOLEAN :
       LET pubkeys == SelectSeq(Unique(events),
                                LAMBDA pk : TestKeepPubkey(pk, user, lastRecipient))
           pubkeysWithLightning == SelectSeq(pubkeys, HasLightning)
           usersWithZaps == IF zapOk THEN Range(pubkeysWithLightning) \cap ZapActive ELSE {}
           validRecipients == TestValidRecipients(pubkeysWithLightning, usersWithZaps)
       IN IF ~eventsOk \/ ~profilesOk \/ pubkeys = <<>>
          THEN tgResult' = [NoTestResult EXCEPT !.ran = TRUE]
          ELSE \E selected \in IF validRecipients = <<>> THEN {"null"}
                               ELSE Range(validRecipients) :
                 tgResult' = [ran |-> TRUE,
                              pubkeysWithLightning |-> pubkeysWithLightning,
                              usersWithZaps |-> usersWithZaps,
                              selectedPubkey |-> selected]
  /\ UNCHANGED nonTestVars

TestInit == tgResult = NoTestResult

(***************************************************************************)
(* gratitudeUtils: the days of a year, and Index, which renders them       *)
(***************************************************************************)

\* a local calendar date, as the fields of a Date at 0:00
DateOf(y, m, d) == [year |-> y, month |-> m, day |-> d]

NoDate == DateOf(0, 0, 0)

\* the leap years of the Date object of the runtime
DateLeap(y) == (y % 4 = 0 /\ y % 100 # 0) \/ y % 400 = 0

\* the month lengths of the Date object of the runtime
DaysInMonth(y, m) ==
  IF m = 2 THEN (IF DateLeap(y) THEN 29 ELSE 28)
  ELSE IF m \in {4, 6, 9, 11} THEN 30 ELSE 31

\* Date.setDate with a day past the end of the month rolls into the next one
RECURSIVE SetDate(_, _, _)
SetDate(y, m, d) ==
  IF d <= DaysInMonth(y, m) THEN DateOf(y, m, d)
  ELSE IF m = 12 THEN SetDate(y + 1, 1, d - DaysInMonth(y, m))
  ELSE SetDate(y, m + 1, d - DaysInMonth(y, m))

\* the local date one midnight later
NextDate(date) == SetDate(date.year, date.month, date.day + 1)

\* isLeapYear without the century rule
IsLeapYear_EveryFourth(y) == y % 4 = 0

IsLeapYear(y) == (y % 4 = 0 /\ y % 100 # 0) \/ y % 400 = 0

GetTotalDaysInYear(y) == IF IsLeapYear(y) THEN 366 ELSE 365

\* new Date(year, 0) is January 1; setDate(dayOfYear) counts on from there
GetDateFromDayOfYear(y, dayOfYear) == SetDate(y, 1, dayOfYear)

\* String(n) of a natural number
RECURSIVE DigitsOf(_)
DigitsOf(n) ==
  LET digit == <<"0", "1", "2", "3", "4", "5", "6", "7", "8", "9">>[(n % 10) + 1]
  IN IF n < 10 THEN <<digit>> ELSE DigitsOf(n \div 10) \o <<digit>>

\* padStart(2, '0')
PadStart2(str) == IF Len(str) < 2 THEN <<"0">> \o str ELSE str

\* YYYY-MM-DD from the local fields of the date
FormatDateString(date) ==
  DigitsOf(date.year) \o <<"-">> \o PadStart2(DigitsOf(date.month))
    \o <<"-">> \o PadStart2(DigitsOf(date.day))

\* isToday(date) when the clock reads now
IsToday(date, now) ==
  date.day = now.day /\ date.month = now.month /\ date.year = now.year

\* isFuture(date) when the clock reads now: both at 0:00, checkDate > today
IsFuture(date, now) ==
  \/ date.year > now.year
  \/ date.year = now.year /\ date.month > now.month
  \/ date.year = now.year /\ date.month = now.month /\ date.day > now.day

\* the DayInfo getAllDaysInYear pushes for one dayOfYear
DayInfo(y, dayOfYear, now) ==
  LET date == GetDateFromDayOfYear(y, dayOfYear)
      todayCheck == IsToday(date, now)
      futureCheck == IsFuture(date, now)
  IN [dayOfYear |-> dayOfYear,
      date |-> date,
      dateString |-> FormatDateString(date),
      isToday |-> todayCheck,
      isFuture |-> futureCheck,
      isPast |-> ~todayCheck /\ ~futureCheck,
      isUnlocked |-> ~futureCheck]

\* getAllDaysInYear(year) when the clock reads now
GetAllDaysInYear(y, now) ==
  [dayOfYear \in 1..GetTotalDaysInYear(y) |-> DayInfo(y, dayOfYear, now)]

\* the years a session can run in
Years == 1896..LastYear

\* the days of the year a session is opened on
StartDays == {<<1, 1>>, <<2, 28>>, <<12, 6>>, <<12, 31>>}

\* Index is not mounted yet
CalIdle ==
  /\ renderedAt = NoDate
  /\ memoYear = 0
  /\ allDays = <<>>
  /\ midnights = 0

CalInit == clock = DateOf(2024, 12, 6) /\ CalIdle

\* Index renders: today = new Date(), and useMemo recomputes allDays only
\* when currentYear differs from the year it was computed for
RenderIndex ==
  /\ renderedAt' = clock
  /\ memoYear' = clock.year
  /\ allDays' = IF memoYear = clock.year THEN allDays
                ELSE GetAllDaysInYear(clock.year, clock)
  /\ UNCHANGED <<clock, midnights>>
  /\ UNCHANGED nonCalVars

\* local midnight passes while the page stays open
MidnightPasses ==
  /\ midnights < MaxMidnights
  /\ clock' = NextDate(clock)
  /\ midnights' = midnights + 1
  /\ UNCHANGED <<renderedAt, memoYear, allDays>>
  /\ UNCHANGED nonCalVars

CalendarNext == RenderIndex \/ MidnightPasses

(***************************************************************************)
(* gratitudeUtils: the quote, prompt and affirmation of a day              *)
(***************************************************************************)

\* lengths of the three tables
QuotesLength == 30
PromptsLength == 61
AffirmationsLength == 69

\* a table, each element named by its array index
ContentTable(name, length) == [i \in 1..length |-> <<name, i - 1>>]

\* a % b of JavaScript: the sign of the dividend
JsRem(a, b) == IF a >= 0 THEN a % b ELSE -((-a) % b)

\* arr[idx] of JavaScript
ArrayAt(arr, idx) == IF idx \in 0..(Len(arr) - 1) THEN arr[idx + 1] ELSE "undefined"

\* getQuoteForDay indexing with the day itself
GetQuoteForDay_FromDay(dayOfYear) ==
  ArrayAt(ContentTable("quotes", QuotesLength), JsRem(dayOfYear, QuotesLength))

GetQuoteForDay(dayOfYear) ==
  ArrayAt(ContentTable("quotes", QuotesLength), JsRem(dayOfYear - 1, QuotesLength))

GetPromptForDay(dayOfYear) ==
  ArrayAt(ContentTable("prompts", PromptsLength), JsRem(dayOfYear - 1, PromptsLength))

GetAffirmationForDay(dayOfYear) ==
  ArrayAt(ContentTable("affirmations", AffirmationsLength),
          JsRem(dayOfYear - 1, AffirmationsLength))

(***************************************************************************)
(* CalendarView and DayDetailDialog: opening a day, saving its reflection  *)
(***************************************************************************)

NoDay ==
  [dayOfYear |-> 0, date |-> NoDate, dateString |-> <<>>, isToday |-> FALSE,
   isFuture |-> FALSE, isPast |-> FALSE, isUnlocked |-> FALSE]

NoEvent == [kind |-> 0, pubkey |-> "null", content |-> <<>>, d |-> <<>>, day |-> <<>>]

NoPublish == [event |-> NoEvent, share |-> FALSE, date |-> NoDate]

\* the kind of a reflection record
ReflectionKind == 36669

\* String.prototype.trim
Trim(text) ==
  LET inked == {i \in 1..Len(text) : text[i] # " "}
  IN IF inked = {} THEN <<>>
     ELSE SubSeq(text, CHOOSE i \in inked : \A j \in inked : i <= j,
                       CHOOSE i \in inked : \A j \in inked : i >= j)

\* the 'd' tag taken from the number of the day
DTag_DayNumber(day) == DigitsOf(day.dayOfYear)

\* the 'd' tag of the events of a day
DTag(day) == day.dateString

\* the kind 36669 template of handleSave and handleShareToNostr
ReflectionEvent(day, text) ==
  [kind |-> ReflectionKind, pubkey |-> "null", content |-> Trim(text),
   d |-> DTag(day), day |-> DigitsOf(day.dayOfYear)]

\* the kind 1 template of handleShareToNostr
NoteEvent(day, trimmedText) ==
  [kind |-> 1, pubkey |-> "null",
   content |-> <<DigitsOf(day.dayOfYear), GetQuoteForDay(day.dayOfYear),
                 GetAffirmationForDay(day.dayOfYear), trimmedText>>,
   d |-> DTag(day), day |-> DigitsOf(day.dayOfYear)]

\* the publisher signs the template with the key of the user
Signed(event) == [event EXCEPT !.pubkey = currentUser]

\* the records of the store no later version supersedes: a later event of the
\* same kind, author and d replaces a reflection record
CurrentRecords(store) ==
  {i \in DOMAIN store :
     store[i].kind = ReflectionKind =>
       ~\E j \in DOMAIN store :
          /\ j > i
          /\ store[j].kind = store[i].kind
          /\ store[j].pubkey = store[i].pubkey
          /\ store[j].d = store[i].d}

\* useGratitudeEntry(pubkey, dateString): events[0] || null of the query
\* {kinds: [36669], authors: [pubkey], '#d': [dateString], limit: 1}
UseGratitudeEntry(pubkey, dateString) ==
  LET found == {i \in CurrentRecords(reflectionStore) :
                  /\ reflectionStore[i].kind = ReflectionKind
                  /\ reflectionStore[i].pubkey = pubkey
                  /\ reflectionStore[i].d = dateString}
  IN IF pubkey = "null" \/ found = {} THEN NoEvent
     ELSE reflectionStore[CHOOSE i \in found : \A j \in found : i >= j]

\* the dialog is closed, nobody is logged in, the relay holds nothing
DialogInit ==
  /\ selectedDay = NoDay
  /\ currentUser = "null"
  /\ showLoginDialog = FALSE
  /\ dialogToast = "none"
  /\ publishing = NoPublish
  /\ publishingNote = NoEvent
  /\ publishCount = 0
  /\ reflectionStore = <<>>
  /\ saves = <<>>

\* setGratitudeText(newValue), and the effect of AutocompleteTextarea on value
SetValue(newValue) ==
  /\ gratitudeText' = newValue
  /\ IF newValue = gratitudeText
     THEN UNCHANGED <<nodes, caret, isInternalUpdate>>
     ELSE IF isInternalUpdate
     THEN isInternalUpdate' = FALSE /\ UNCHANGED <<nodes, caret>>
     ELSE /\ nodes' = RenderTextWithMentions(newValue)
          /\ caret' = Caret(0, 0)
          /\ UNCHANGED isInternalUpdate
  /\ UNCHANGED <<mentionedProfiles, mentionFetches, highlightedIndex, selectOutcome, editorVars>>

\* what a step of the dialog leaves alone
nonDialogVars == <<searchVars, calVars, zapVars, recentVars, relayEvents, giftVars, tgResult>>

\* a click on the card of an unlocked day: handleOpenDetail, and the effect
\* of the dialog that empties the text box
HandleOpenDetail ==
  /\ selectedDay = NoDay
  /\ \E i \in DOMAIN allDays :
       /\ allDays[i].isUnlocked
       /\ selectedDay' = allDays[i]
  /\ SetValue(<<>>)
  /\ UNCHANGED <<currentUser, showLoginDialog, dialogToast, publishing, publishingNote,
                 publishCount, reflectionStore, saves>>
  /\ UNCHANGED nonDialogVars

\* the text box is there for today
EditorShown == selectedDay # NoDay /\ ~selectedDay.isPast

\* the user types or deletes in the text box of the dialog
EditReflection == EditorShown /\ (InsertText \/ PressBackspace)

\* the Save and Share buttons are enabled
ButtonsEnabled ==
  /\ EditorShown
  /\ publishing = NoPublish
  /\ publishingNote = NoEvent
  /\ Trim(gratitudeText) # <<>>

\* handleSave (share = FALSE) and handleShareToNostr (share = TRUE) up to createEvent
StartPublish(share) ==
  /\ publishCount < MaxPublishes
  /\ IF currentUser = "null"
     THEN /\ showLoginDialog' = TRUE
          /\ UNCHANGED <<dialogToast, publishing, publishCount>>
     ELSE IF Trim(gratitudeText) = <<>>
     THEN /\ dialogToast' = IF share THEN "No reflection to share" ELSE "Empty entry"
          /\ UNCHANGED <<showLoginDialog, publishing, publishCount>>
     ELSE /\ publishing' = [event |-> ReflectionEvent(selectedDay, gratitudeText),
                            share |-> share, date |-> selectedDay.date]
          /\ publishCount' = publishCount + 1
          /\ UNCHANGED <<showLoginDialog, dialogToast>>
  /\ UNCHANGED <<selectedDay, currentUser, publishingNote, reflectionStore, saves>>
  /\ UNCHANGED <<domVars, editorVars>>
  /\ UNCHANGED nonDialogVars

\* a click on the enabled Save button
HandleSave == ButtonsEnabled /\ StartPublish(FALSE)

\* a click on the enabled Share button
HandleShareToNostr == ButtonsEnabled /\ StartPublish(TRUE)

\* variant: the note is posted whether or not the save went through
StartsNote_Always(ok, share) == share

\* publishNote is called in the onSuccess of the createEvent of the share path
StartsNote(ok, share) == ok /\ share

\* createEvent settles: the relay accepts the signed event and onSuccess
\* runs, or onError runs
CreateEventSettles ==
  /\ publishing # NoPublish
  /\ publishing' = NoPublish
  /\ \E ok \in BOOLEAN :
       /\ reflectionStore' = IF ok THEN Append(reflectionStore, Signed(publishing.event))
                             ELSE reflectionStore
       /\ saves' = IF ok THEN Append(saves, [date |-> publishing.date,
                                             content |-> publishing.event.content])
                   ELSE saves
       /\ publishingNote' = IF StartsNote(ok, publishing.share)
                            THEN NoteEvent(selectedDay, publishing.event.content)
                            ELSE publishingNote
       /\ IF ok /\ ~publishing.share
          THEN /\ dialogToast' = "Reflection saved"
               /\ SetValue(<<>>)
          ELSE /\ dialogToast' = IF ok THEN dialogToast ELSE "Failed to save"
               /\ UNCHANGED <<domVars, editorVars>>
  /\ UNCHANGED <<selectedDay, currentUser, showLoginDialog, publishCount>>
  /\ UNCHANGED nonDialogVars

\* publishNote settles
PublishNoteSettles ==
  /\ publishingNote # NoEvent
  /\ publishingNote' = NoEvent
  /\ \E ok \in BOOLEAN :
       /\ reflectionStore' = IF ok THEN Append(reflectionStore, Signed(publishingNote))
                             ELSE reflectionStore
       /\ dialogToast' = IF ok THEN "Shared to Nostr" ELSE "Saved but failed to share"
  /\ SetValue(<<>>)
  /\ UNCHANGED <<selectedDay, currentUser, showLoginDialog, publishing, publishCount, saves>>
  /\ UNCHANGED nonDialogVars

DialogNext ==
  \/ HandleOpenDetail
  \/ EditReflection
  \/ HandleSave
  \/ HandleShareToNostr
  \/ CreateEventSettles
  \/ PublishNoteSettles

\* the days a session with the dialog is opened on
DialogStartDates == {DateOf(2024, 12, 6), DateOf(2024, 12, 31)}

\* the record a save of the day before left on the relay
EarlierRecord(now) ==
  LET n == CHOOSE k \in 1..GetTotalDaysInYear(now.year) :
             NextDate(GetDateFromDayOfYear(now.year, k)) = now
  IN [kind |-> ReflectionKind, pubkey |-> UserPubkey, content |-> <<"q">>,
      d |-> FormatDateString(GetDateFromDayOfYear(now.year, n)), day |-> DigitsOf(n)]

(***************************************************************************)
(* Initial state and specifications                                        *)
(***************************************************************************)
SearchInit ==
  /\ wsRef = "sock"
  /\ readyState = "CONNECTING"
  /\ pendingRequests = <<>>
  /\ timers = {}
  /\ reconnectAttempts = 0
  /\ currentEndpoint = 0
  /\ reconnectTimers = <<>>
  /\ nextId = 1
  /\ outcome = [i \in RequestIds |-> NoOutcome]
  /\ settleCalls = [i \in RequestIds |-> 0]
  /\ arrived = [i \in RequestIds |-> <<>>]
  /\ sent = <<>>
  /\ lastCall = "none"

Init == SearchInit /\ EditorInit /\ CalInit /\ DialogInit /\ ZapInit /\ RecentInit /\ GiftInit /\ TestInit

SearchNext ==
  \/ WsOpen
  \/ WsClose
  \/ ReconnectTimerFires
  \/ Deliver
  \/ SearchProfiles
  \/ \E id \in RequestIds : RequestTimeout(id)
  \/ Disconnect

SpecSearch == Init /\ [][SearchNext]_vars

\* timers of the JavaScript runtime fire: a pending request timeout is taken
SpecSearchFair == SpecSearch /\ \A id \in RequestIds : WF_vars(RequestTimeout(id))

SpecEditor == Init /\ [][EditorNext]_vars

\* the editor with its div, the mouse and the dropdown
SpecMention == Init /\ [][MentionNext]_vars

\* the editor with its div, the keyboard and the dropdown
SpecKeys == Init /\ [][KeysNext]_vars

SpecZap == Init /\ [][ZapNext]_vars

\* the two tabs, starting from a list a previous session left
InitRecent ==
  /\ SearchInit /\ EditorInit /\ CalInit /\ DialogInit /\ ZapInit /\ GiftInit /\ TestInit
  /\ storage \in StoredLogs
  /\ RecentIdle

SpecRecent == InitRecent /\ [][RecentNext]_vars

\* lists of recent recipients earlier gifts can have left in localStorage
GiftStoredLogs == {<<>>, <<"pkA">>, <<"pkF", "pkA">>}

\* relays whose recent posts are by two people with a lightning address
InitGift ==
  /\ SearchInit /\ EditorInit /\ CalInit /\ DialogInit /\ ZapInit /\ TestInit
  /\ GiftIdle
  /\ relayEvents = <<"pkA", "pkF">>
  /\ storage \in {<<"pkA">>, <<"pkF", "pkA">>}
  /\ RecentIdle

\* sendGratitudeGift with the modal
SpecGift == InitGift /\ [][GiftNext]_vars

\* relays holding any recent posts
InitSelect ==
  /\ SearchInit /\ EditorInit /\ CalInit /\ DialogInit /\ ZapInit /\ TestInit
  /\ GiftIdle
  /\ relayEvents \in EventLists
  /\ storage \in GiftStoredLogs
  /\ RecentIdle

\* the two recipient selections: selectRandomRecipient and testGenerator
SpecSelect == InitSelect /\ [][SelectNext \/ TestGenerator]_vars

\* a session opened on one of the start days of one of the years
InitCalendar ==
  /\ SearchInit /\ EditorInit /\ DialogInit /\ ZapInit /\ RecentInit /\ GiftInit /\ TestInit
  /\ \E y \in Years, md \in StartDays : clock = DateOf(y, md[1], md[2])
  /\ CalIdle

\* Index over the days of the year
SpecCalendar == InitCalendar /\ [][CalendarNext]_vars

\* Index has rendered the year; the relay may hold the record of the day before
InitDialog ==
  /\ SearchInit /\ EditorInit /\ ZapInit /\ RecentInit /\ GiftInit /\ TestInit
  /\ clock \in DialogStartDates
  /\ renderedAt = clock
  /\ memoYear = clock.year
  /\ allDays = GetAllDaysInYear(clock.year, clock)
  /\ midnights = 0
  /\ selectedDay = NoDay
  /\ currentUser \in {"null", UserPubkey}
  /\ showLoginDialog = FALSE
  /\ dialogToast = "none"
  /\ publishing = NoPublish
  /\ publishingNote = NoEvent
  /\ publishCount = 0
  /\ reflectionStore \in {<<>>, <<EarlierRecord(clock)>>}
  /\ saves = <<>>

\* the dialog of a day over the rendered calendar
SpecDialog == InitDialog /\ [][DialogNext]_vars

\* AutocompleteTextarea mounted with a value, before its effect has run
InitRender ==
  /\ SearchInit /\ CalInit /\ DialogInit /\ ZapInit /\ RecentInit /\ GiftInit /\ TestInit
  /\ textBeforeCursor = <<>>
  /\ inputCount = 0
  /\ debounceTimeout = 0
  /\ edTimers = {}
  /\ inflight = {}
  /\ suggestions = <<>>
  /\ showDropdown = FALSE
  /\ searching = FALSE
  /\ searchCalls = <<>>
  /\ suggestionsFrom = <<0, 0>>
  /\ nodes = <<>>
  /\ caret = Caret(0, 0)
  /\ gratitudeText \in ValueTexts(MaxPieces)
  /\ isInternalUpdate = FALSE
  /\ mentionedProfiles = {}
  /\ mentionFetches = NewFetches(gratitudeText)
  /\ highlightedIndex = -1
  /\ selectOutcome = [calls |-> 0, inserted |-> 0, profile |-> "none", result |-> "none"]

\* rendering a value and typing into it
SpecRender == InitRender /\ [][RenderNext]_vars

\* timers of the JavaScript runtime fire and a resolved Promise.all runs its
\* continuation; nothing obliges a relay to answer
SpecZapFair ==
  /\ SpecZap
  /\ \A r \in Relays : WF_vars(RelayTimeout(r))
  /\ WF_vars(ProcessResults)

(***************************************************************************)
(* Claims about PrimalCacheService                                         *)
(***************************************************************************)
\* C1: result buffers are isolated by request id: the buffer of each pending
\* request holds exactly the kind-0 profiles that arrived tagged with its id
\* while it was pending, and a resolved request has resolved with exactly
\* those; a profile tagged with another id is never in it.
C1_BuffersIsolated ==
  \A id \in RequestIds :
    /\ id \in DOMAIN pendingRequests => pendingRequests[id].profiles = arrived[id]
    /\ outcome[id].state = "resolved" => outcome[id].profiles = arrived[id]

\* C1 witness: request 2 has resolved with the profile sent for it while
\* request 1, issued earlier, is still pending with its own profile.
C1_Witness ==
  /\ outcome[2] = Resolved(<<"pkB">>)
  /\ 1 \in DOMAIN pendingRequests
  /\ pendingRequests[1].profiles = <<"pkA">>

RequestSettledOnce(id) ==
  /\ settleCalls[id] <= 1
  /\ settleCalls[id] = 1 <=> outcome[id].state # "pending"
  /\ id \in DOMAIN pendingRequests <=> (id < nextId /\ outcome[id].state = "pending")
  /\ id \in DOMAIN pendingRequests <=> id \in timers
  /\ outcome[id].state = "rejected" =>
       outcome[id].error \in {"Search request timed out", "WebSocket disconnected", "send failed"}

\* C2: every request that was sent is settled exactly once, by the EOSE for
\* its id, its timeout or a disconnect, whichever is first: resolve/reject is
\* invoked at most once per request, a request is in pendingRequests (with its
\* timer armed) exactly while it is issued and its promise is pending, an
\* issued request stays issued, a settled request stays as it was settled
\* whatever arrives later, and no request stays in pendingRequests for ever,
\* so that a pending request is eventually settled.
C2_SettledExactlyOnce ==
  /\ [](\A id \in RequestIds : RequestSettledOnce(id))
  /\ [][/\ nextId' >= nextId
        /\ \A id \in RequestIds :
             outcome[id].state # "pending" =>
               /\ outcome'[id] = outcome[id]
               /\ settleCalls'[id] = settleCalls[id]
               /\ id \notin DOMAIN pendingRequests']_vars
  /\ \A id \in RequestIds : []<>(id \notin DOMAIN pendingRequests)

\* C2 witness: one request resolved by its EOSE with a profile, the other
\* rejected by its timeout, each settled once.
C2_Witness ==
  /\ outcome[1] = Resolved(<<"pkA">>)
  /\ outcome[2] = Rejected("Search request timed out")
  /\ settleCalls[1] = 1
  /\ settleCalls[2] = 1

\* C3: when the socket closes, every request pending at that moment is
\* rejected with the disconnect error in that step, pendingRequests is empty
\* afterwards and the timers of the cleared requests are disarmed; while the
\* socket is closed nothing is pending and no timer is left armed.
C3_DisconnectFailsAllPending ==
  /\ [](readyState = "CLOSED" => (pendingRequests = <<>> /\ timers = {}))
  /\ [][(readyState # "CLOSED" /\ readyState' = "CLOSED") =>
          /\ pendingRequests' = <<>>
          /\ timers' = {}
          /\ \A id \in DOMAIN pendingRequests :
               /\ outcome'[id] = Rejected("WebSocket disconnected")
               /\ settleCalls'[id] = 1]_vars

\* C3 witness: the socket has closed while two requests were pending, and
\* both were rejected with the disconnect error.
C3_Witness ==
  /\ readyState = "CLOSED"
  /\ outcome[1] = Rejected("WebSocket disconnected")
  /\ outcome[2] = Rejected("WebSocket disconnected")
  /\ arrived[1] # <<>>

\* C20: reconnectAttempts stays within 0..3. The counter goes up only by one
\* and only while it is below 3, in a step that arms a reconnect timer of
\* counter x 1000 ms; no reconnect timer is armed without the counter going
\* up; the counter goes down only in a step that opens the socket, and an
\* open sets it to 0.
C20_ReconnectBounded ==
  /\ [](reconnectAttempts \in 0..3)
  /\ [][/\ reconnectAttempts' > reconnectAttempts =>
             /\ reconnectAttempts < 3
             /\ reconnectAttempts' = reconnectAttempts + 1
             /\ reconnectTimers' # <<>>
             /\ reconnectTimers'[Len(reconnectTimers')] = 1000 * reconnectAttempts'
        /\ reconnectAttempts' <= reconnectAttempts =>
             Len(reconnectTimers') <= Len(reconnectTimers)
        /\ reconnectAttempts' < reconnectAttempts =>
             (readyState = "CONNECTING" /\ readyState' = "OPEN")
        /\ (readyState # "OPEN" /\ readyState' = "OPEN") => reconnectAttempts' = 0]_vars

\* C20 witness: the third reconnect in a row was scheduled, 3000 ms ahead,
\* and no further one can be.
C20_Witness ==
  /\ reconnectAttempts = 3
  /\ reconnectTimers = <<3000>>
  /\ readyState = "CLOSED"

\* the reconnect attempts are used up: the socket is closed and no reconnect
\* timer is outstanding
Exhausted ==
  /\ readyState = "CLOSED"
  /\ reconnectAttempts = maxReconnectAttempts
  /\ reconnectTimers = <<>>

\* C21: after the reconnect attempts are exhausted, the next search request
\* forces a fresh connection attempt: the call creates a connecting socket or
\* schedules a connect.
C21_SearchForcesReconnect ==
  [][(Exhausted /\ lastCall # "not connected" /\ lastCall' = "not connected")
       => (readyState' = "CONNECTING" \/ reconnectTimers' # <<>>)]_vars

\* C22: a search of at least 2 characters issued while the socket is not
\* OPEN is rejected at once: nothing is sent, no entry is added to
\* pendingRequests, no timer is armed, and nothing is sent when the
\* connection opens later; a request is sent only on an open socket.
C22_FailFastNoQueue ==
  /\ [][(lastCall' = "not connected" /\ lastCall # "not connected") =>
          /\ wsRef = "null" \/ readyState # "OPEN"
          /\ UNCHANGED <<sent, pendingRequests, timers, nextId, outcome, readyState>>]_vars
  /\ [][sent' # sent =>
          /\ wsRef = "sock"
          /\ readyState = "OPEN"
          /\ lastCall' = "sent"]_vars
  /\ [][(readyState # "OPEN" /\ readyState' = "OPEN") =>
          UNCHANGED <<sent, pendingRequests, timers, nextId>>]_vars

\* a search was rejected while the socket was connecting; the socket is open
\* now and nothing was ever sent
C22_Witness ==
  /\ lastCall = "not connected"
  /\ readyState = "OPEN"
  /\ sent = <<>>
  /\ pendingRequests = <<>>
  /\ nextId = 1

(***************************************************************************)
(* Claims about AutocompleteTextarea                                       *)
(***************************************************************************)
TextAtAbc == <<"@", "a", "b", "c">>
QueryAbc == <<"a", "b", "c">>

\* C4: the debounce is single-slot. At most one debounce timer is armed; an
\* armed timer is the one set by the latest input event and carries what
\* that event's text asks for; at most one search call is made per input
\* event; and after typing '@', 'a', 'b', 'c' with no timer firing between
\* 'b' and 'c', the only search call ever made has query 'abc' (none has
\* 'ab'), and it is made once the timer has fired.
C4_DebounceSingleSlot ==
  /\ Cardinality(edTimers) <= 1
  /\ \A t \in edTimers :
       /\ t.tid = inputCount
       /\ t.tid = debounceTimeout
       /\ [kind |-> t.kind, arg |-> t.arg] = Classify(textBeforeCursor)
  /\ \A i, j \in 1..Len(searchCalls) : i < j => searchCalls[i].at < searchCalls[j].at
  /\ (/\ textBeforeCursor = TextAtAbc
      /\ inputCount = 4
      /\ \A i \in 1..Len(searchCalls) : searchCalls[i].at # 3)
       => /\ Len(searchCalls) <= 1
          /\ \A i \in 1..Len(searchCalls) : searchCalls[i] = [query |-> QueryAbc, at |-> 4]
          /\ edTimers = {} => Len(searchCalls) = 1

\* C4 witness: '@abc' was typed in four keystrokes and the one search call
\* made is the one for 'abc'.
C4_Witness ==
  /\ textBeforeCursor = TextAtAbc
  /\ inputCount = 4
  /\ searchCalls = <<[query |-> QueryAbc, at |-> 4]>>

\* C5: a response that arrives after a newer input event is discarded: the
\* suggestion list is only set from the response to the request of the
\* latest input event.
C5_StaleResponseDiscarded == suggestionsFrom[1] = suggestionsFrom[2]

\* the text ends in one of the two triggers: a nostr: identifier, or an '@'
\* followed by at least two word characters
EndsInTrigger(text) ==
  LET i == LastNonWord(text)
  IN  NostrMatch(text, i) # <<>> \/ Len(AtMatch(text, i)) >= 2

\* C24: after an edit that leaves the text before the caret ending in neither
\* trigger (a lone '@a' reached by deleting a character, say), the suggestion
\* list is empty and the dropdown is closed.
C24_NoTriggerClears ==
  [][(inputCount' = inputCount + 1 /\ ~EndsInTrigger(textBeforeCursor'))
       => (suggestions' = <<>> /\ ~showDropdown')]_vars

(***************************************************************************)
(* Claims about the keyboard and the mention pills of AutocompleteTextarea *)
(***************************************************************************)
\* C23: the highlighted index is at most suggestions.length - 1 in every
\* reachable state, also after the suggestion list was replaced or cleared,
\* and so Enter never hands handleUserSelect a suggestion that does not
\* exist.
C23_HighlightInRange ==
  /\ highlightedIndex <= Len(suggestions) - 1
  /\ selectOutcome.profile # "undefined"

\* the length of the trigger the text ends in, 0 if it ends in none
TriggerLen(text) ==
  LET i == LastNonWord(text)
  IN IF AtMatch(text, i) # <<>> THEN Len(AtMatch(text, i)) + 1
     ELSE IF NostrMatch(text, i) # <<>> THEN Len(NostrMatch(text, i)) + Len(NostrPrefix)
     ELSE 0

\* the plain text of what follows the caret in the div
TextAfterCursor(ns, c) ==
  HtmlToPlainText(
    IF InDiv(c) THEN SubSeq(ns, c.offset + 1, Len(ns))
    ELSE IF ns[c.node].pill THEN SubSeq(ns, c.node + 1, Len(ns))
    ELSE <<TextNode(SubSeq(ns[c.node].text, c.offset + 1, Len(ns[c.node].text)))>>
           \o SubSeq(ns, c.node + 1, Len(ns)))

\* a suggestion is accepted while the text before the caret ends in a trigger
AcceptsOnTrigger ==
  /\ selectOutcome'.calls = selectOutcome.calls + 1
  /\ selectOutcome'.profile # "undefined"
  /\ TriggerLen(GetTextBeforeCursor(nodes, caret)) > 0

\* C25: accepting a suggestion replaces exactly the trigger before the caret
\* by one mention and two spaces: the plain text handed to onChange is the
\* text before the trigger, 'nostr:' with the npub of the chosen key, two
\* spaces, then the text that followed the caret; and afterwards the dropdown
\* is closed and the suggestion list is empty.
C25_AcceptReplacesTrigger ==
  [][AcceptsOnTrigger =>
       LET tb == GetTextBeforeCursor(nodes, caret)
       IN /\ gratitudeText' = SubSeq(tb, 1, Len(tb) - TriggerLen(tb))
                                \o MentionOf(selectOutcome'.profile)
                                \o <<" ", " ">>
                                \o TextAfterCursor(nodes, caret)
          /\ ~showDropdown'
          /\ suggestions' = <<>>]_vars

\* characters the user has typed or pasted (nothing of an identifier)
UserChars == {"@", "a", "b", " "}

\* the positions of the text covered by a complete 'nostr:' identifier of one
\* of the keys
FullMentionPositions(text) ==
  LET n == Len(MentionHead) + NpubDataLength
      starts == {i \in 1..(Len(text) - n + 1) :
                   /\ text[i] = "n" /\ text[i + 1] = "o"
                   /\ SubSeq(text, i, i + n - 1) \in {MentionOf("pkA"), MentionOf("pkB")}}
  IN UNION {i..(i + n - 1) : i \in starts}

\* C26: a mention token is deletion-atomic. Whatever the user inserts and
\* deletes, every character of an identifier in the plain text belongs to a
\* complete 'nostr:' identifier: no edit leaves part of a former token.
C26_TokensWhole ==
  LET whole == FullMentionPositions(gratitudeText)
  IN \A k \in 1..Len(gratitudeText) :
       gratitudeText[k] \notin UserChars => k \in whole

(***************************************************************************)
(* Claims about the recent recipients list                                 *)
(***************************************************************************)
NoDuplicates(seq) == \A i, j \in 1..Len(seq) : i # j => seq[i] # seq[j]

\* a step in which tab t completes a save that no other tab's write preceded
\* since its read
SaveCompletes(t) ==
  /\ tabPc[t] = "read"
  /\ savesDone' = savesDone + 1
  /\ tabPc'[t] = "idle"
  /\ tabRecent[t] = storage

\* C11: the stored list has at most 5 keys and no duplicate, whatever the
\* two tabs interleave, and the key of the save that completed last is at
\* its head. A completed save of a key that is not in a full list puts it in
\* front of the first four keys (the oldest is evicted); a completed save of
\* a key that is in the list moves it to the front, the other keys keep
\* their order and the list does not grow.
C11_RecentLogCapped ==
  /\ [](/\ Len(storage) <= 5
        /\ NoDuplicates(storage)
        /\ lastSaved # "none" => (storage # <<>> /\ Head(storage) = lastSaved))
  /\ [][\A t \in Tabs :
          SaveCompletes(t) =>
            /\ (tabKey[t] \notin Range(storage) /\ Len(storage) = 5) =>
                 storage' = <<tabKey[t]>> \o SubSeq(storage, 1, 4)
            /\ (tabKey[t] \notin Range(storage) /\ Len(storage) < 5) =>
                 storage' = <<tabKey[t]>> \o storage
            /\ tabKey[t] \in Range(storage) =>
                 /\ Len(storage') = Len(storage)
                 /\ storage' = <<tabKey[t]>>
                      \o SelectSeq(storage, LAMBDA p : p # tabKey[t])]_vars

\* C11 witness: k5 and then k6 were saved on top of k1..k4, which evicted
\* k4, and a third save moved k2 to the front.
C11_Witness ==
  /\ storage = <<"k2", "k6", "k5", "k1", "k3">>
  /\ savesDone = 3
  /\ lastSaved = "k2"

(***************************************************************************)
(* Claims about the zap detector                                           *)
(***************************************************************************)
\* C6: selectRandomZapper eventually returns whatever the three relays do,
\* also when a relay's connection attempt never completes.
C6_ScanReturns == <>(zapPc = "done")

\* C7: the deduplicated list holds each event id of the merged list exactly
\* once, and the event kept for an id is its first occurrence in the merged
\* (relay-order) list.
C7_DedupeFirstWins ==
  zapPc = "done" =>
    /\ \A i, j \in 1..Len(uniqueEvents) :
         i # j => uniqueEvents[i].id # uniqueEvents[j].id
    /\ {e.id : e \in Range(uniqueEvents)} = {e.id : e \in Range(allEvents)}
    /\ \A k \in 1..Len(uniqueEvents) :
         \E i \in 1..Len(allEvents) :
           /\ allEvents[i] = uniqueEvents[k]
           /\ \A j \in 1..(i - 1) : allEvents[j].id # uniqueEvents[k].id

\* C7 witness: two relays returned different receipts under one id and the
\* deduplicated list kept one.
C7_Witness ==
  /\ zapPc = "done"
  /\ zapReceipts[1] # <<>>
  /\ zapReceipts[2] # <<>>
  /\ Len(allEvents) = 2
  /\ allEvents[1].id = allEvents[2].id
  /\ allEvents[1] # allEvents[2]
  /\ Len(uniqueEvents) = 1

\* C8: a receipt (with a reference tag) gets past the amount filter exactly
\* when its bolt11 tag decodes to more than 10 sats: 10 is excluded, 11 is
\* included, a missing or undecodable bolt11 tag is excluded; every survivor
\* and the returned result carry an amount above 10.
C8_AmountAboveTen ==
  zapPc = "done" =>
    /\ \A e \in Range(uniqueEvents) :
         e.ref # "none" =>
           (e \in Range(amountPassed) <=> (e.bolt11 = "ok" /\ e.sats > 10))
    /\ \A z \in Range(processedZaps) : z.amount >= 11
    /\ zapResult # NullResult => zapResult.amount >= 11

\* C8 witness: a receipt of exactly 10 sats was dropped and one of 11 sats
\* passed.
C8_Witness ==
  /\ zapPc = "done"
  /\ \E e \in Range(uniqueEvents) : e.ref # "none" /\ e.bolt11 = "ok" /\ e.sats = 10
  /\ \E e \in Range(amountPassed) : e.sats = 11
  /\ Len(amountPassed) = 1
  /\ Len(uniqueEvents) = 2

\* a description that parses and holds a pubkey
HasSender(e) == e.desc \notin {"missing", "bad json", "no pubkey"}

\* the survivors as the claim lists them
ClaimedSurvivors ==
  {e \in Range(uniqueEvents) :
     /\ e.ref \in {"e", "a"}
     /\ e.bolt11 = "ok" /\ e.sats > 10
     /\ HasSender(e)
     /\ e.desc \notin ExcludeSet}

\* the survivors, with the npub encoding of the sender taken into account
EncodableSurvivors == {e \in ClaimedSurvivors : e.desc # "bogus"}

ResultOf(e) == [zapperPubkey |-> e.desc, amount |-> e.sats]

PossibleResults ==
  {Shuffle(processedZaps, js)[1] : js \in ShuffleChoices(Len(processedZaps))}

\* C9 as stated: null exactly when no receipt with a reference, an amount
\* above 10, a parseable description with a pubkey and a sender outside the
\* exclusion set exists; otherwise the result is one of those receipts, and
\* each of them is a possible result.
C9_AsStated ==
  zapPc = "done" =>
    /\ zapResult = NullResult <=> ClaimedSurvivors = {}
    /\ ClaimedSurvivors # {} =>
         /\ zapResult \in {ResultOf(e) : e \in ClaimedSurvivors}
         /\ PossibleResults = {ResultOf(e) : e \in ClaimedSurvivors}

\* C9 amended: a survivor must also have a sender key that encodes as an
\* npub. The result is null exactly when there is no such survivor;
\* otherwise it is the sender key and amount of one of them, and the shuffle
\* can select each of them.
C9_Amended ==
  zapPc = "done" =>
    /\ zapResult = NullResult <=> EncodableSurvivors = {}
    /\ Range(processedZaps) = {ResultOf(e) : e \in EncodableSurvivors}
    /\ EncodableSurvivors # {} =>
         /\ zapResult \in {ResultOf(e) : e \in EncodableSurvivors}
         /\ PossibleResults = {ResultOf(e) : e \in EncodableSurvivors}

\* C9 witness: two receipts survived and the second one was selected.
C9_Witness ==
  /\ zapPc = "done"
  /\ Len(processedZaps) = 2
  /\ processedZaps[1] # processedZaps[2]
  /\ zapResult = processedZaps[2]

\* what relay r contributes to the merge
Contribution(r) == IF relayState[r] = "failed" THEN <<>> ELSE zapReceipts[r]

\* C10: relay queries are independent. The merge happens only once all three
\* queries have resolved; a relay that failed to connect contributes nothing,
\* every other relay (timed out or not) contributes all the events it
\* collected, and the merged list is these contributions in relay order.
C10_RelaysIndependent ==
  /\ zapPc = "awaiting" => (allEvents = <<>> /\ zapResult = NoResult)
  /\ zapPc = "done" =>
       /\ \A r \in Relays : queryResult[r] # "pending"
       /\ \A r \in Relays : relayState[r] = "failed" <=> queryResult[r] = "failed"
       /\ allEvents = Contribution(1) \o Contribution(2) \o Contribution(3)

\* C10 witness: relay 1 failed to connect, relay 2 timed out after one
\* event, relay 3 sent one event and EOSE; both events were merged.
C10_Witness ==
  /\ zapPc = "done"
  /\ queryResult = <<"failed", "timeout", "eose">>
  /\ Len(zapReceipts[2]) = 1
  /\ Len(zapReceipts[3]) = 1
  /\ allEvents = zapReceipts[2] \o zapReceipts[3]

(***************************************************************************)
(* Claims about the recipient selection                                    *)
(***************************************************************************)
\* selectRandomRecipient has returned to sendGratitudeGift
SelectionDone == gInput.called /\ usedNetwork /\ giftPc \notin {"events", "profiles"}

\* the authors of the fetched posts that are not the user and pass the
\* candidate filter
Eligible == {pk \in Range(gEvents) : pk # gInput.user /\ IsCandidate(pk)}

EligibleOutside == Eligible \ Range(recentRecipients)

\* C12: the recipient selectRandomRecipient returns is never the current user
\* and never a key of the recent recipients list read at the start of the
\* round; when the queries succeed and an eligible candidate outside that
\* list exists, the recipient is such a candidate.
C12_ExcludesUserAndRecent ==
  /\ recipient # "null" =>
       /\ recipient # gInput.user
       /\ recipient \notin Range(recentRecipients)
  /\ (SelectionDone /\ ~queryFailed /\ EligibleOutside # {}) =>
       recipient \in EligibleOutside

\* pkA is in the list read, pkF is not and is chosen
C12_Witness ==
  /\ SelectionDone
  /\ gEvents = <<"pkA", "pkF">>
  /\ recentRecipients = <<"pkA">>
  /\ recipient = "pkF"

\* C13: if every candidate that has a payment address, is not a bot and is
\* not the current user is in the recent recipients list, the selection
\* relaxes the recent-exclusion and returns one of them instead of null.
C13_FallbackRelaxes ==
  (SelectionDone /\ ~queryFailed /\ Eligible # {} /\ Eligible \subseteq Range(recentRecipients))
    => recipient \in Eligible

\* the profiles that the bot heuristic flags: "bot" or "news" in nip05, "bot"
\* in the payment address, in any case
Bots == {"pkB", "pkN", "pkL"}

\* C15: every recipient returned is the author of a fetched post, has a
\* fetched profile whose JSON parses and holds lud16 or lud06, and is not a
\* bot; a profile is a bot exactly when its nip05 contains "bot" or "news" or
\* its payment address contains "bot", whatever the case of the letters.
C15_RecipientIsCandidate ==
  /\ recipient # "null" =>
       /\ recipient \in Range(gEvents)
       /\ Profile(recipient).found
       /\ Profile(recipient).jsonOk
       /\ Profile(recipient).lud16 # <<>> \/ Profile(recipient).lud06 # <<>>
       /\ recipient \notin Bots
  /\ \A pk \in Authors :
       IsBot(Profile(pk).nip05, LightningAddress(Profile(pk))) <=> pk \in Bots

\* the posts are by RoBOT@w and by an author with lud06 only, who is chosen
C15_Witness ==
  /\ SelectionDone
  /\ gEvents = <<"pkB", "pkF">>
  /\ recipient = "pkF"

\* testGenerator: a non-empty pool gives a member of it, and one with zap
\* activity if the zap query found any
TestPrefersZapActive ==
  (tgResult.ran /\ tgResult.pubkeysWithLightning # <<>>) =>
    /\ tgResult.selectedPubkey \in Range(tgResult.pubkeysWithLightning)
    /\ tgResult.usersWithZaps # {} => tgResult.selectedPubkey \in tgResult.usersWithZaps

ChannelSteps ==
  {<<"nwc", "enable">>, <<"nwc", "webln">>, <<"enable", "webln">>,
   <<"webln", "wallet">>, <<"wallet", "manual">>,
   <<"nwc", "publish">>, <<"webln", "publish">>}

Paid(att) == \E k \in 1..Len(att) : att[k].result = "paid"

\* C16: the payment channels are tried in the order wallet connection, WebLN,
\* wallet app, manual invoice; a channel is tried only after every earlier
\* one was unavailable or failed; webln.enable(), failing or not, is followed
\* by the WebLN payment; after a payment that succeeded no other channel is
\* tried and no invoice is returned.
C16_ChannelOrder ==
  /\ \A k \in 1..Len(attempts) :
       /\ k = 1 => attempts[k].channel = "nwc"
       /\ k > 1 =>
            /\ <<attempts[k - 1].channel, attempts[k].channel>> \in ChannelSteps
            /\ attempts[k].channel # "publish" =>
                 attempts[k - 1].result \in {"unavailable", "failed", "enabled"}
            /\ attempts[k].channel = "publish" => attempts[k - 1].result = "paid"
            /\ attempts[k - 1].channel = "enable" =>
                 attempts[k].result \in {"paid", "failed"}
  /\ Paid(attempts) => ~giftResult.invoice /\ paymentState # "invoice"
  /\ giftResult.invoice =>
       /\ attempts # <<>>
       /\ attempts[Len(attempts)].channel \in {"wallet", "manual"}
       /\ {"nwc", "webln", "wallet"} \subseteq {attempts[k].channel : k \in 1..Len(attempts)}
  /\ giftResult.success => Paid(attempts)

\* the wallet connection failed, enable() failed, and WebLN still paid
C16_Witness ==
  /\ giftResult.success
  /\ attempts = <<Attempt("nwc", "failed"), Attempt("enable", "failed"),
                  Attempt("webln", "paid"), Attempt("publish", "ok")>>

\* C17: when the payment went through over the wallet connection or WebLN,
\* sendGratitudeGift returns success whether the publish of the zap request
\* succeeded, timed out or threw, and shows no error.
C17_PublishFailureNotFatal ==
  (giftPc = "idle" /\ Paid(attempts)) =>
    /\ giftResult = GiftResult(TRUE, FALSE)
    /\ toast = "none"
    /\ attempts[Len(attempts)].channel = "publish"

\* paid over the wallet connection, the publish threw, the call succeeded
C17_Witness ==
  /\ giftPc = "idle"
  /\ attempts = <<Attempt("nwc", "paid"), Attempt("publish", "throws")>>
  /\ giftResult.success

\* C18: the zap request is published only after an automatic payment
\* succeeded, after the invoice check reported paid, or after the user
\* confirmed; a poll that finds the invoice unpaid does not publish.
C18_PublishOnlyWhenPaidOrConfirmed ==
  /\ [](\A e \in publishLog :
          \/ e.by \in {"nwc", "webln"} /\ e.isPaid
          \/ e.by = "poll" /\ e.isPaid
          \/ e.by = "confirm")
  /\ [][publishLog' # publishLog =>
          \/ /\ giftPc \in {"nwc", "weblnPay"}
             /\ giftPc' = "publish"
             /\ attempts'[Len(attempts')].result = "paid"
          \/ \E force \in BOOLEAN :
               /\ BagIn(VerifyCall(force, "check"), verifyCalls)
               /\ CopiesIn(VerifyCall(force, "publish"), verifyCalls') =
                    CopiesIn(VerifyCall(force, "publish"), verifyCalls) + 1]_vars

\* two calls are over: only the confirmation of the user published
C18_Witness ==
  /\ verifyStarted = 2
  /\ verifyCalls = EmptyBag
  /\ publishLog = {[by |-> "confirm", isPaid |-> FALSE]}
  /\ paymentState = "success"

\* the call made last had no user or an amount that is not a positive number
InvalidInput ==
  /\ gInput.called
  /\ \/ gInput.user = "none"
     \/ gInput.amount.nan
     \/ gInput.amount.value <= 0

\* C19: sendGratitudeGift without a logged-in user or with an amount that is
\* not a positive number makes no relay query, no fetch and no publish,
\* changes no persisted state and shows a message.
C19_InputRejected ==
  InvalidInput =>
    /\ giftPc = "idle"
    /\ ~usedNetwork
    /\ toast \in {"Login required", "Invalid amount"}
    /\ giftResult = GiftResult(FALSE, FALSE)

(***************************************************************************)
(* Claims about the calendar of the year                                   *)
(***************************************************************************)

\* C28: a day that was locked as future becomes unlocked as soon as local
\* midnight passes, also in a session opened before midnight: the day list
\* Index shows when it renders after midnight has the new calendar day in
\* it, flagged as today and unlocked.
C28_UnlockedAfterMidnight ==
  (midnights > 0 /\ renderedAt = clock) =>
    \E i \in DOMAIN allDays :
      /\ allDays[i].date = clock
      /\ allDays[i].isToday
      /\ allDays[i].isUnlocked

\* C29: getTotalDaysInYear(year) is 366 exactly when the year is divisible
\* by 4 and not by 100, or divisible by 400, and 365 otherwise (2024 and
\* 2000 give 366, 2023 and 1900 give 365); getAllDaysInYear(year) has that
\* many entries, numbered 1..totalDays in order.
C29_GregorianDayCount ==
  allDays # <<>> =>
    LET y == memoYear
        total == IF (y % 4 = 0 /\ y % 100 # 0) \/ y % 400 = 0 THEN 366 ELSE 365
    IN /\ GetTotalDaysInYear(y) = total
       /\ y \in {2024, 2000} => GetTotalDaysInYear(y) = 366
       /\ y \in {2023, 1900} => GetTotalDaysInYear(y) = 365
       /\ DOMAIN allDays = 1..total
       /\ \A i \in 1..total : allDays[i].dayOfYear = i
       /\ allDays[1].date = DateOf(y, 1, 1)
       /\ allDays[total].date = DateOf(y, 12, 31)

\* the list of the year 1900, a century year that is no leap year, is rendered
C29_Witness ==
  /\ memoYear = 1900
  /\ Len(allDays) = 365
  /\ allDays[365].dateString = <<"1", "9", "0", "0", "-", "1", "2", "-", "3", "1">>

(***************************************************************************)
(* Claims about the content of a day and its reflection record             *)
(***************************************************************************)

\* the keys of the dates the user saved a reflection for
SavedDates == {saves[k].date : k \in DOMAIN saves}

\* the text of the last save for a date
LastSaved(date) ==
  saves[CHOOSE k \in DOMAIN saves :
          /\ saves[k].date = date
          /\ \A j \in DOMAIN saves : saves[j].date = date => j <= k].content

\* the current reflection records of the user for the YYYY-MM-DD key of a date
CurrentFor(date) ==
  {i \in CurrentRecords(reflectionStore) :
     /\ reflectionStore[i].kind = 36669
     /\ reflectionStore[i].pubkey = currentUser
     /\ reflectionStore[i].d = FormatDateString(date)}

\* C27: for one author, after saving a reflection for a date, and after
\* saving again for the same date, exactly one record is current for that
\* date and it holds the content saved last: every save publishes kind 36669
\* with the 'd' tag equal to the YYYY-MM-DD key of the day, so the store
\* keeps one record per author and d.
C27_OneCurrentRecordPerDate ==
  /\ \A date \in SavedDates :
       /\ Cardinality(CurrentFor(date)) = 1
       /\ \A i \in CurrentFor(date) : reflectionStore[i].content = LastSaved(date)
       /\ UseGratitudeEntry(currentUser, FormatDateString(date)).content = LastSaved(date)
  /\ \A i \in DOMAIN reflectionStore :
       reflectionStore[i].kind = 36669 =>
         /\ Len(reflectionStore[i].d) = 10
         /\ reflectionStore[i].content # <<>>

\* two saves for 6 December 2024, day 341, with different texts: the record
\* read back holds the second text
C27_Witness ==
  /\ Len(saves) >= 2
  /\ saves[1].date = DateOf(2024, 12, 6)
  /\ saves[2].date = saves[1].date
  /\ saves[2].content # saves[1].content
  /\ selectedDay.dayOfYear = 341
  /\ UseGratitudeEntry(currentUser,
        <<"2", "0", "2", "4", "-", "1", "2", "-", "0", "6">>).content = saves[2].content

\* the element of a table the contract names for a day
ContractElement(name, length, dayOfYear) == <<name, (dayOfYear - 1) % length>>

\* C30: for every dayOfYear in 1..366 the quote, the prompt and the
\* affirmation are the table elements at index (dayOfYear - 1) mod
\* tableLength, which always exist; day 1 and day tableLength + 1 both get
\* the first element.
C30_ContentForDay ==
  selectedDay # NoDay =>
    LET d == selectedDay.dayOfYear
    IN /\ d \in 1..366
       /\ GetQuoteForDay(d) = ContractElement("quotes", 30, d)
       /\ GetPromptForDay(d) = ContractElement("prompts", 61, d)
       /\ GetAffirmationForDay(d) = ContractElement("affirmations", 69, d)
       /\ d \in {1, 31} => GetQuoteForDay(d) = <<"quotes", 0>>
       /\ d \in {1, 62} => GetPromptForDay(d) = <<"prompts", 0>>
       /\ d \in {1, 70} => GetAffirmationForDay(d) = <<"affirmations", 0>>

\* day 366 is open: the tables have wrapped 12, 5 and 5 times
C30_Witness ==
  /\ selectedDay.dayOfYear = 366
  /\ GetQuoteForDay(selectedDay.dayOfYear) = <<"quotes", 5>>
  /\ GetPromptForDay(selectedDay.dayOfYear) = <<"prompts", 60>>
  /\ GetAffirmationForDay(selectedDay.dayOfYear) = <<"affirmations", 20>>

(***************************************************************************)
(* Claims about late events, sharing, lookups and the closed modal         *)
(***************************************************************************)

\* C31: what a relay contributes to the merge is exactly what it delivered
\* before its EOSE or its timeout; an event it delivers after its EOSE, while
\* the scan still waits for other relays, is not in the merged list.
C31_MergeIsSnapshot ==
  zapPc = "done" => allEvents = resolvedWith[1] \o resolvedWith[2] \o resolvedWith[3]

\* the store holds a reflection record of the user with this d and content
ReflectionStored(store, d, content) ==
  \E i \in DOMAIN store :
    /\ store[i].kind = 36669
    /\ store[i].pubkey = currentUser
    /\ store[i].d = d
    /\ store[i].content = content

\* C32: in Share to Nostr the kind 1 note is published only after the kind
\* 36669 save has succeeded: a note starts only in the step that stores the
\* reflection of the share, a failed save starts none, and when the note
\* publish settles, failed or not, the stored reflection is still there.
C32_NoteAfterSave ==
  [][/\ (publishingNote' # NoEvent /\ publishingNote = NoEvent) =>
          /\ publishing.share
          /\ reflectionStore' = Append(reflectionStore, Signed(publishing.event))
          /\ publishingNote'.kind = 1
          /\ publishingNote'.content[4] = publishing.event.content
     /\ (publishing # NoPublish /\ publishing' = NoPublish
           /\ reflectionStore' = reflectionStore) => publishingNote' = NoEvent
     /\ (publishingNote # NoEvent /\ publishingNote' = NoEvent) =>
          /\ SubSeq(reflectionStore', 1, Len(reflectionStore)) = reflectionStore
          /\ ReflectionStored(reflectionStore', publishingNote.d, publishingNote.content[4])
     /\ \A i \in DOMAIN reflectionStore' :
          reflectionStore'[i].kind = 1 =>
            ReflectionStored(SubSeq(reflectionStore', 1, i - 1), reflectionStore'[i].d,
                             reflectionStore'[i].content[4])
    ]_vars

\* the note of a share failed; the reflection of the share is stored, no note is
C32_Witness ==
  /\ dialogToast = "Saved but failed to share"
  /\ Len(saves) = 1
  /\ ReflectionStored(reflectionStore, FormatDateString(saves[1].date), saves[1].content)
  /\ \A i \in DOMAIN reflectionStore : reflectionStore[i].kind # 1

\* C33: a lookup by identity key never propagates an error to the editor:
\* whenever the awaited fetchProfile settles, with a profile, with null, or
\* because the relay query failed, the callback completes: the suggestion
\* list is the profile or empty and the searching indicator is cleared.
C33_LookupAlwaysCompletes ==
  [][\A r \in inflight :
       (r.kind = "lookup" /\ r \notin inflight') =>
         /\ ~searching'
         /\ suggestions' \in {<<>>, r.arg}
         /\ suggestionsFrom' = <<r.key, inputCount>>]_vars

\* the number of characters that follow the type prefix of the identifier
\* the text before the caret ends in, 0 if it ends in none
DataAfterPrefix(text) ==
  LET i == LastNonWord(text)
      m == IF NostrMatch(text, i) # <<>> THEN NostrMatch(text, i) ELSE AtMatch(text, i)
  IN IF StartsWith(m, NprofilePrefix) THEN Len(m) - Len(NprofilePrefix)
     ELSE IF StartsWith(m, NpubPrefix) THEN Len(m) - Len(NpubPrefix)
     ELSE 0

\* C34: an explicit identifier is decoded and looked up only when at least 59
\* characters follow its npub1 or nprofile1 prefix: an input event arms a
\* lookup timer only for such a text, and a shorter identifier arms none.
C34_LookupNeedsFullIdentifier ==
  [][\A t \in edTimers' \ edTimers :
       t.kind = "lookup" => DataAfterPrefix(textBeforeCursor') >= 59]_vars

\* C35: after disconnect() has been called on the search client (this.ws is
\* null), no reconnect timer is scheduled and no connection attempt is made:
\* the close the caller asked for does not lead to a reconnection.
C35_NoReconnectAfterDisconnect ==
  [][wsRef = "null" =>
       /\ Len(reconnectTimers') <= Len(reconnectTimers)
       /\ wsRef' = "null"
       /\ readyState' # "CONNECTING"]_vars

\* C36: the searching indicator is true only if a debounce timer is pending
\* or a search or lookup is in flight; after a keystroke that cancels the
\* pending timer without starting a new one the indicator is false.
C36_SearchingMeansWork ==
  searching => (edTimers # {} \/ inflight # {})

\* C37: rendering a plain text into text runs and mention tokens and
\* serialising the result back gives the same plain text, also when a mention
\* is directly followed by punctuation; and the re-derivation leaves what the
\* user did not edit alone: the first insertion, made at the start of the
\* div, puts the typed text in front of the unchanged value.
C37_RenderRoundTrip ==
  [][/\ (inputCount' = inputCount /\ nodes' # nodes) =>
          HtmlToPlainText(nodes') = gratitudeText
     /\ (inputCount = 0 /\ inputCount' = 1) =>
          \E typed \in Inserts : gratitudeText' = typed \o gratitudeText]_vars

\* C38: for one gift the signed zap request is published at most once: the
\* initial poll, the interval polls and the "I've Paid" confirmation never
\* have two publishes of it under way, and never publish it one after another.
C38_PublishedOnce ==
  giftCalls <= 1 =>
    /\ Cardinality(publishLog) <= 1
    /\ \A c, d \in BagToSet(verifyCalls) :
         (c.pc = "publish" /\ d.pc = "publish") =>
           (c = d /\ CopiesIn(c, verifyCalls) = 1)

\* C39: once the gift modal was closed (the form view, no invoice, and no
\* send under way) it stays so until Send is pressed again: a poll or
\* confirmation that started before the close and completes afterwards
\* changes neither the view nor the invoice, and no new poll starts.
C39_ClosedStaysForm ==
  [][(paymentState = "form" /\ ~invoiceInfo /\ giftPc = "idle") =>
       /\ paymentState' = "form"
       /\ ~invoiceInfo'
       /\ verifyStarted' = verifyStarted]_vars

\* C40: the chosen recipient is added to the log of recent recipients only
\* when the attempt reaches payment. The selection never picks a key of the
\* log it read, so after an attempt that chose a recipient and then failed
\* (no zap endpoint, signing error, invoice failure) the log, being what it
\* was before the attempt, does not hold the chosen key.
C40_LogOnlyOnSuccess ==
  (giftPc = "idle" /\ giftResult = GiftResult(FALSE, FALSE) /\ recipient # "null") =>
    recipient \notin Range(storage)

====
